---------------------------- MODULE Spec2Model ----------------------------
(***************************************************************************)
(* Document extraction-and-linking pipeline of backend/app/ai:             *)
(*   ocr.py                 text extraction gateway                        *)
(*   extractor.py           structured extraction engine                   *)
(*   document_processor.py  orchestrator and requirement linker            *)
(* Python values are modelled explicitly: JSON values carry their Python   *)
(* type, strings that matter to date parsing are token sequences, dicts    *)
(* keep their insertion order, and floats are IEEE-754 doubles.            *)
(***************************************************************************)
EXTENDS Integers, Sequences, FiniteSets, TLC

VARIABLES
    handle,           \* per lazily created global: the instance it holds, 0 = None
    built,            \* per lazily created global: instances constructed so far
    tpc,              \* per thread: where its call of a get_* function stands
    th,               \* per thread: the global its call is about
    tgot,             \* per thread: the instance its last call returned, 0 = none
    openaiInstalled,  \* the openai package can be imported
    ocr,              \* OCR harness: whether extract_text(_from_bytes) was called, and then
                      \* its arguments and environment (input) and its call record (result)
    threshold,        \* settings.extraction_confidence_threshold (a double)
    apiKey,           \* settings.openai_api_key is set
    sumCompensated,   \* the build's float sum(): TRUE = compensated (CPython >= 3.12)
    xcalled,          \* LLMExtractor.extract has been called (extractor harness)
    xfields,          \* its expected_fields argument
    xoutcome,         \* what the chat-completion capability did
    xresult,          \* the call record: the ExtractionResult it returned
    docs,             \* table documents, as committed
    reqs,             \* table requirements, as committed
    ncalls,           \* calls of process_document made so far (also the clock)
    pc,               \* per caller: where its call of process_document stands
    arg,              \* per caller: the document_id argument
    pend,             \* per caller: column writes on its document object, not yet committed
    rpend,            \* per caller: column writes on requirement objects, not yet committed
    raw_text,         \* per caller: local raw_text
    document_type,    \* per caller: local document_type
    extraction_result,\* per caller: local extraction_result
    linked_id,        \* per caller: local linked_requirement_id
    exc,              \* per caller: the exception caught by the except clause
    dbfault,          \* per caller: that exception came from the database session
    ret,              \* per caller: the DocumentProcessingResult returned
    invoked,          \* per caller: collaborators invoked during the call
    before            \* per caller: documents and requirements as committed when the call began

xvars == <<xcalled, xfields, xoutcome, xresult>>
settingsVars == <<threshold, apiKey, sumCompensated>>
dbVars == <<docs, reqs>>
callVars == <<pc, arg, pend, rpend, raw_text, document_type, extraction_result,
              linked_id, exc, dbfault, ret, invoked, before>>
pvars == <<dbVars, ncalls, callVars>>
singletonVars == <<handle, built, tpc, th, tgot, openaiInstalled>>
ocrVars == <<ocr>>
vars == <<settingsVars, singletonVars, ocrVars, xvars, pvars>>

-----------------------------------------------------------------------------
(* Bounds of the model.                                                    *)

\* longest expected_fields list handed to extract
MaxFields == 2

-----------------------------------------------------------------------------
(* IEEE-754 doubles.  Every double the pipeline computes is a confidence:  *)
(* one of the literals 0.3 0.5 0.8 0.95, a sum of them, or such a sum      *)
(* divided by a count.  A double is [p, q, e]: the real number             *)
(*      (p * 2^55 + e) / (q * 2^55)                                        *)
(* i.e. the decimal p/q plus the binary rounding error e.  Round is        *)
(* round-to-nearest, ties-to-even, at the 53-bit precision of the binade   *)
(* the value lies in.                                                      *)

\* 2^g mod q, for 27 <= g <= 54 (2^g itself does not fit a machine integer)
Pow2Mod(g, q) == (((2^27) % q) * ((2^(g - 27)) % q)) % q

\* v >= 2^j for the value v = (p*2^55 + e)/(q*2^55), j in -2..3
AtLeastPow2(p, q, e, j) ==
    LET c == p * 4 - q * 2^(j + 2)
    IN  c > 0 \/ (c = 0 /\ e >= 0)

\* the j with 2^j <= v < 2^(j+1); every double here lies in [0.25, 16)
Binade(p, q, e) ==
    IF AtLeastPow2(p, q, e, 3) THEN 3
    ELSE IF AtLeastPow2(p, q, e, 2) THEN 2
    ELSE IF AtLeastPow2(p, q, e, 1) THEN 1
    ELSE IF AtLeastPow2(p, q, e, 0) THEN 0
    ELSE IF AtLeastPow2(p, q, e, -1) THEN -1
    ELSE -2

\* the rounding error of the double nearest to (p*2^55 + e)/(q*2^55)
Round(p, q, e) ==
    IF p = 0 /\ e = 0 THEN 0
    ELSE
      LET j   == Binade(p, q, e)
          g   == 52 - j              \* ulp = 2^-g
          s   == 55 - g
          G   == q * 2^s             \* one ulp, in units of 1/(q*2^55)
          r   == (2^s * ((p * Pow2Mod(g, q)) % q) + e) % G
          r2  == (2^s * ((p * Pow2Mod(g, 2 * q)) % (2 * q)) + e) % (2 * G)
          odd == r2 >= G             \* the mantissa below is odd
      IN  IF 2 * r < G THEN e - r
          ELSE IF 2 * r > G THEN e + (G - r)
          ELSE IF odd THEN e + (G - r)
          ELSE e - r

\* the float literal n/20 (0.3 = 6/20, 0.5 = 10/20, 0.8 = 16/20, 0.95 = 19/20)
Lit(n) == [p |-> n, q |-> 20, e |-> Round(n, 20, 0)]

FZero == [p |-> 0, q |-> 20, e |-> 0]

\* the four confidence literals of the scoring loop
Conf_MissingRequired == Lit(6)
Conf_MissingOptional == Lit(16)
Conf_ValidType == Lit(19)
Conf_WrongType == Lit(10)

\* x + y, both with q = 20
FAdd(x, y) == [p |-> x.p + y.p, q |-> 20, e |-> Round(x.p + y.p, 20, x.e + y.e)]

\* x / n for an int n >= 1
FDiv(x, n) == [p |-> x.p, q |-> x.q * n, e |-> Round(x.p, x.q * n, x.e)]

\* x < y
FLess(x, y) ==
    LET l == x.p * y.q
        r == y.p * x.q
    IN  l < r \/ (l = r /\ x.e * y.q < y.e * x.q)

FEq(x, y) == ~FLess(x, y) /\ ~FLess(y, x)

FGeq(x, y) == ~FLess(x, y)

RECURSIVE NaiveSum(_)
NaiveSum(s) ==
    IF s = <<>> THEN FZero
    ELSE FAdd(NaiveSum(SubSeq(s, 1, Len(s) - 1)), s[Len(s)])

RECURSIVE SumP(_)
SumP(s) == IF s = <<>> THEN 0 ELSE s[1].p + SumP(Tail(s))

RECURSIVE SumE(_)
SumE(s) == IF s = <<>> THEN 0 ELSE s[1].e + SumE(Tail(s))

\* the built-in sum() over floats: left to right; from CPython 3.12 on with
\* Neumaier compensation, which on these operands is the exact sum rounded once
PySum(s, compensated) ==
    IF compensated
    THEN [p |-> SumP(s), q |-> 20, e |-> Round(SumP(s), 20, SumE(s))]
    ELSE NaiveSum(s)

-----------------------------------------------------------------------------
(* Python values as json.loads produces them.                              *)

None == [py |-> "NoneType"]
\* value is None
IsNone(v) == v = None
PyStr(toks) == [py |-> "str", s |-> toks]
PyInt(n) == [py |-> "int", n |-> n]
\* a finite float: sign, whole part i, fraction f/10^w; nan and inf carry a name
PyFloat(neg, i, f, w) ==
    [py |-> "float", neg |-> neg, i |-> i, f |-> f, w |-> w, special |-> ""]
PyFloatSpecial(neg, name) ==
    [py |-> "float", neg |-> neg, i |-> 0, f |-> 0, w |-> 0, special |-> name]
PyBool(b) == [py |-> "bool", b |-> b]
\* a list of n elements; a nested JSON object
PyList(n) == [py |-> "list", n |-> n]
PyDict(d) == [py |-> "dict", d |-> d]

\* a string is a sequence of tokens: digit runs (value n, w digits), words,
\* and single punctuation or space characters
N(n, w) == [k |-> "num", n |-> n, w |-> w, c |-> ""]
W(c) == [k |-> "word", n |-> 0, w |-> 0, c |-> c]
C(c) == [k |-> "chr", n |-> 0, w |-> 0, c |-> c]

\* isinstance(v, types); bool is a subclass of int
isinstance(v, types) ==
    \/ v.py \in types
    \/ (v.py = "bool" /\ "int" \in types)

\* a dict keeps insertion order: keys in order, val the mapping
EmptyDict == [keys |-> <<>>, val |-> <<>>]

DictHas(d, k) == k \in DOMAIN d.val

\* d.get(k)
DictGet(d, k) == IF DictHas(d, k) THEN d.val[k] ELSE None

\* d[k] = v
DictSet(d, k, v) ==
    [keys |-> IF DictHas(d, k) THEN d.keys ELSE Append(d.keys, k),
     val  |-> [x \in (DOMAIN d.val) \cup {k} |-> IF x = k THEN v ELSE d.val[x]]]

\* d.values(), in insertion order
DictValues(d) == [i \in 1..Len(d.keys) |-> d.val[d.keys[i]]]

\* bool(d): an empty dict is falsy
DictTruthy(d) == d.keys # <<>>

-----------------------------------------------------------------------------
(* datetime.strptime / strftime on the formats the pipeline uses.          *)

IsLeap(y) == (y % 4 = 0 /\ y % 100 # 0) \/ y % 400 = 0

DaysIn(y, m) ==
    IF m = 2 THEN (IF IsLeap(y) THEN 29 ELSE 28)
    ELSE IF m \in {4, 6, 9, 11} THEN 30 ELSE 31

MonthNames ==
    <<"january", "february", "march", "april", "may", "june", "july",
      "august", "september", "october", "november", "december">>

MonthAbbrs ==
    <<"jan", "feb", "mar", "apr", "may", "jun", "jul", "aug", "sep", "oct",
      "nov", "dec">>

\* index of word c in names, 0 when absent (words are kept lower-cased:
\* strptime matches month names case-insensitively)
IndexOf(names, c) ==
    IF \E i \in 1..Len(names) : names[i] = c
    THEN CHOOSE i \in 1..Len(names) : names[i] = c
    ELSE 0

\* one format directive against one token: the regex of _strptime
\*   %Y \d\d\d\d      %m 1[0-2]|0[1-9]|[1-9]      %d 3[0-1]|[1-2]\d|0[1-9]|[1-9]
DirectiveMatches(dir, tok) ==
    CASE dir = "%Y" -> tok.k = "num" /\ tok.w = 4
      [] dir = "%m" -> tok.k = "num" /\ tok.n \in 1..12 /\
                       (tok.w = 2 \/ (tok.w = 1 /\ tok.n <= 9))
      [] dir = "%d" -> tok.k = "num" /\ tok.n \in 1..31 /\
                       (tok.w = 2 \/ (tok.w = 1 /\ tok.n <= 9))
      [] dir = "%B" -> tok.k = "word" /\ IndexOf(MonthNames, tok.c) > 0
      [] dir = "%b" -> tok.k = "word" /\ IndexOf(MonthAbbrs, tok.c) > 0
      [] OTHER      -> tok.k = "chr" /\ tok.c = dir

\* the value the directive dir reads from the matching token of s, 0 if none
FieldOf(s, fmt, dir) ==
    IF \E i \in 1..Len(fmt) : fmt[i] = dir
    THEN LET i == CHOOSE i \in 1..Len(fmt) : fmt[i] = dir
         IN  CASE dir = "%B" -> IndexOf(MonthNames, s[i].c)
               [] dir = "%b" -> IndexOf(MonthAbbrs, s[i].c)
               [] OTHER      -> s[i].n
    ELSE 0

\* datetime.strptime(s, fmt): ok = FALSE stands for ValueError
strptime(s, fmt) ==
    LET shape == /\ Len(s) = Len(fmt)
                 /\ \A i \in 1..Len(fmt) : DirectiveMatches(fmt[i], s[i])
        y == FieldOf(s, fmt, "%Y")
        m == FieldOf(s, fmt, "%m") + FieldOf(s, fmt, "%B") + FieldOf(s, fmt, "%b")
        d == FieldOf(s, fmt, "%d")
    IN  IF shape /\ y >= 1 /\ d <= DaysIn(y, m)
        THEN [ok |-> TRUE, y |-> y, m |-> m, d |-> d]
        ELSE [ok |-> FALSE, y |-> 0, m |-> 0, d |-> 0]

\* dt.strftime("%Y-%m-%d")
strftime_iso(dt) == <<N(dt.y, 4), C("-"), N(dt.m, 2), C("-"), N(dt.d, 2)>>

FmtISO == <<"%Y", "-", "%m", "-", "%d">>

-----------------------------------------------------------------------------
(* extractor.py: ExtractionResult and the scoring and cleaning helpers.    *)

ExtractionResult(data, confidence, field_confidences, raw_response, errors) ==
    [data |-> data, confidence |-> confidence,
     field_confidences |-> field_confidences,
     raw_response |-> raw_response, errors |-> errors]

\* ExtractionResult.needs_review
\* needs_review with a non-strict comparison
needs_review_nonstrict(result, thr) == ~FLess(thr, result.confidence)

needs_review(result, thr) == FLess(result.confidence, thr)

is_valid_date(value) ==
    IF ~isinstance(value, {"str"}) THEN FALSE
    ELSE strptime(value.s, FmtISO).ok

validate_field_type(value, expected_type) ==
    IF IsNone(value) THEN TRUE
    ELSE CASE expected_type = "string"  -> isinstance(value, {"str"})
           [] expected_type = "text"    -> isinstance(value, {"str"})
           [] expected_type = "number"  -> isinstance(value, {"int", "float"})
           [] expected_type = "date"    -> is_valid_date(value)
           [] expected_type = "boolean" -> isinstance(value, {"bool"})
           [] expected_type = "array"   -> isinstance(value, {"list"})
           [] OTHER                     -> TRUE

\* the confidence one expected field gets (the body of the scoring loop)
field_confidence(data, field) ==
    LET value == DictGet(data, field.name)
    IN  IF IsNone(value)
        THEN (IF field.required THEN Conf_MissingRequired ELSE Conf_MissingOptional)
        ELSE IF validate_field_type(value, field.type) THEN Conf_ValidType
        ELSE Conf_WrongType

RECURSIVE calculate_field_confidences(_, _)
calculate_field_confidences(data, expected_fields) ==
    IF expected_fields = <<>> THEN EmptyDict
    ELSE LET n     == Len(expected_fields)
             field == expected_fields[n]
             sofar == calculate_field_confidences(data, SubSeq(expected_fields, 1, n - 1))
         IN  DictSet(sofar, field.name, field_confidence(data, field))

\* the sum of the field confidences, not divided by their number
calculate_overall_confidence_sum(field_confidences, compensated) ==
    IF ~DictTruthy(field_confidences) THEN FZero
    ELSE PySum(DictValues(field_confidences), compensated)

calculate_overall_confidence(field_confidences, compensated) ==
    IF ~DictTruthy(field_confidences) THEN FZero
    ELSE FDiv(PySum(DictValues(field_confidences), compensated),
              Len(field_confidences.keys))

\* re.sub(r'[$,]', '', value): drop the characters, joining the digit runs
RECURSIVE StripCurrency(_)
StripCurrency(s) ==
    IF s = <<>> THEN <<>>
    ELSE LET rest == StripCurrency(Tail(s))
             t    == s[1]
         IN  IF t.k = "chr" /\ t.c \in {"$", ","} THEN rest
             ELSE IF t.k = "num" /\ rest # <<>> /\ rest[1].k = "num"
             THEN <<N(t.n * 10^(rest[1].w) + rest[1].n, t.w + rest[1].w)>> \o Tail(rest)
             ELSE <<t>> \o rest

\* a fraction f/10^w without trailing zeros
RECURSIVE NormFrac(_, _)
NormFrac(f, w) ==
    IF w > 0 /\ f % 10 = 0 THEN NormFrac(f \div 10, w - 1) ELSE <<f, w>>

\* float(s) on an unsigned literal: digits, digits.digits, nan, inf, infinity
FloatUnsigned(s, neg) ==
    IF Len(s) = 1 /\ s[1].k = "num"
    THEN [ok |-> TRUE, v |-> PyFloat(neg, s[1].n, 0, 0)]
    ELSE IF Len(s) = 3 /\ s[1].k = "num" /\ s[2] = C(".") /\ s[3].k = "num"
    THEN LET fw == NormFrac(s[3].n, s[3].w)
         IN  [ok |-> TRUE, v |-> PyFloat(neg, s[1].n, fw[1], fw[2])]
    ELSE IF Len(s) = 1 /\ s[1].k = "word" /\ s[1].c \in {"nan", "inf", "infinity"}
    THEN [ok |-> TRUE,
          v |-> PyFloatSpecial(neg, IF s[1].c = "nan" THEN "nan" ELSE "inf")]
    ELSE [ok |-> FALSE, v |-> None]

\* float(s): ok = FALSE stands for ValueError
float_of(s) ==
    IF s # <<>> /\ s[1] \in {C("-"), C("+")}
    THEN FloatUnsigned(Tail(s), s[1] = C("-"))
    ELSE FloatUnsigned(s, FALSE)

\* bool(value) of a non-string value
truthy(value) ==
    CASE value.py = "bool"  -> value.b
      [] value.py = "int"   -> value.n # 0
      [] value.py = "float" -> value.special # "" \/ value.i # 0 \/ value.f # 0
      [] value.py = "list"  -> value.n > 0
      [] value.py = "dict"  -> DictTruthy(value.d)
      [] OTHER              -> FALSE

\* the string, lower-cased, is one of "true" "yes" "1" "x" "checked"
IsTrueWord(s) ==
    /\ Len(s) = 1
    /\ \/ (s[1].k = "word" /\ s[1].c \in {"true", "yes", "x", "checked"})
       \/ s[1] = N(1, 1)

\* the formats of the date branch without the day-first one
DateFormats_without_day_first ==
    <<FmtISO,
      <<"%m", "/", "%d", "/", "%Y">>,
      <<"%m", "-", "%d", "-", "%Y">>,
      <<"%B", " ", "%d", ",", " ", "%Y">>,
      <<"%b", " ", "%d", ",", " ", "%Y">> >>

\* the formats _clean_value tries for a date, in order
DateFormats ==
    <<FmtISO,
      <<"%m", "/", "%d", "/", "%Y">>,
      <<"%m", "-", "%d", "-", "%Y">>,
      <<"%d", "/", "%m", "/", "%Y">>,
      <<"%B", " ", "%d", ",", " ", "%Y">>,
      <<"%b", " ", "%d", ",", " ", "%Y">> >>

\* the date branch: the first format that parses wins
RECURSIVE clean_date(_, _)
clean_date(value, formats) ==
    IF formats = <<>> THEN value
    ELSE LET dt == strptime(value.s, formats[1])
         IN  IF dt.ok THEN PyStr(strftime_iso(dt))
             ELSE clean_date(value, Tail(formats))

\* _clean_value keeping a number only when it arrives as a string
clean_value_strings_only(value, field_type) ==
    IF IsNone(value) THEN None
    ELSE IF field_type = "number"
    THEN IF isinstance(value, {"str"})
         THEN LET f == float_of(StripCurrency(value.s))
              IN  IF f.ok THEN f.v ELSE None
         ELSE None
    ELSE IF field_type = "date"
    THEN IF isinstance(value, {"str"}) THEN clean_date(value, DateFormats)
         ELSE value
    ELSE IF field_type = "boolean"
    THEN IF isinstance(value, {"str"}) THEN PyBool(IsTrueWord(value.s))
         ELSE PyBool(truthy(value))
    ELSE value

\* LLMExtractor._clean_value
clean_value(value, field_type) ==
    IF IsNone(value) THEN None
    ELSE IF field_type = "number"
    THEN IF isinstance(value, {"str"})
         THEN LET f == float_of(StripCurrency(value.s))
              IN  IF f.ok THEN f.v ELSE None
         ELSE value
    ELSE IF field_type = "date"
    THEN IF isinstance(value, {"str"}) THEN clean_date(value, DateFormats)
         ELSE value
    ELSE IF field_type = "boolean"
    THEN IF isinstance(value, {"str"}) THEN PyBool(IsTrueWord(value.s))
         ELSE PyBool(truthy(value))
    ELSE value

RECURSIVE clean_extracted_data(_, _)
clean_extracted_data(data, expected_fields) ==
    IF expected_fields = <<>> THEN EmptyDict
    ELSE LET n     == Len(expected_fields)
             field == expected_fields[n]
             sofar == clean_extracted_data(data, SubSeq(expected_fields, 1, n - 1))
             value == DictGet(data, field.name)
         IN  DictSet(sofar, field.name,
                     IF ~IsNone(value) THEN clean_value(value, field.type) ELSE None)

-----------------------------------------------------------------------------
(* extractor.py: the model's response text and LLMExtractor.extract.       *)

\* The response text is a sequence of segments: prose without braces, a
\* JSON object, a JSON array, or brace-delimited text that is not JSON.
Prose == [k |-> "prose", d |-> EmptyDict]
JsonObj(d) == [k |-> "obj", d |-> d]
JsonArr == [k |-> "arr", d |-> EmptyDict]
Junk == [k |-> "junk", d |-> EmptyDict]

\* json.loads(text): exc = "" when it returns
json_loads(segs) ==
    IF Len(segs) = 1 /\ segs[1].k = "obj"
    THEN [exc |-> "", value |-> PyDict(segs[1].d)]
    ELSE IF Len(segs) = 1 /\ segs[1].k = "arr"
    THEN [exc |-> "", value |-> PyList(1)]
    ELSE [exc |-> "JSONDecodeError", value |-> None]

\* re.search(r'\{.*\}', text, re.DOTALL).group(): greedy, from the first
\* brace to the last one; <<>> when there is no match
BraceSpan(segs) ==
    LET braces == {i \in 1..Len(segs) : segs[i].k \in {"obj", "junk"}}
    IN  IF braces = {} THEN <<>>
        ELSE LET lo == CHOOSE i \in braces : \A j \in braces : i <= j
                 hi == CHOOSE i \in braces : \A j \in braces : j <= i
             IN  SubSeq(segs, lo, hi)

\* LLMExtractor._parse_response; content.none is a None message content
parse_response(content) ==
    IF content.none THEN [exc |-> "TypeError", value |-> None]
    ELSE LET direct == json_loads(content.segs)
         IN  IF direct.exc = "" THEN direct
             ELSE IF BraceSpan(content.segs) # <<>>
             THEN json_loads(BraceSpan(content.segs))
             ELSE [exc |-> "", value |-> PyDict(EmptyDict)]

ErrorResult(msg) == ExtractionResult(EmptyDict, FZero, EmptyDict, <<>>, <<msg>>)

\* A call either returns a value (exc = "") or raises exc.
Return(v) == [exc |-> "", value |-> v]
Raise(msg) == [exc |-> msg, value |-> None]

\* LLMExtractor._get_client and client.chat.completions.create, as the
\* outcome records them: the client could not be built, the call raised, or
\* it returned a message content.  The capability is invoked unless the
\* client could not be built.
CapabilityInvoked(outcome) == outcome.kind # "no_client"

\* the statements of extract inside its try
extract_body(outcome, expected_fields, compensated) ==
    IF outcome.kind # "ok" THEN Raise(outcome.msg)
    ELSE
      LET parsed == parse_response(outcome.content)
      IN  IF parsed.exc # "" THEN Raise(parsed.exc)
          ELSE IF parsed.value.py # "dict" /\ expected_fields # <<>>
          THEN Raise("AttributeError")         \* list.get in the scoring loop
          ELSE
            LET extracted_data ==
                    IF parsed.value.py = "dict" THEN parsed.value.d ELSE EmptyDict
                field_confidences ==
                    calculate_field_confidences(extracted_data, expected_fields)
                overall_confidence ==
                    calculate_overall_confidence(field_confidences, compensated)
                cleaned_data ==
                    clean_extracted_data(extracted_data, expected_fields)
            IN  Return(ExtractionResult(cleaned_data, overall_confidence,
                                        field_confidences, outcome.content.segs, <<>>))

\* extract without its except clause
extract_uncaught(api_key, outcome, expected_fields, compensated) ==
    IF ~api_key
    THEN [exc |-> "", llm_called |-> FALSE,
          value |-> ErrorResult("OpenAI API key not configured")]
    ELSE LET body == extract_body(outcome, expected_fields, compensated)
         IN  [exc |-> body.exc, llm_called |-> CapabilityInvoked(outcome),
              value |-> body.value]

\* LLMExtractor.extract: the call record, with llm_called telling whether
\* the chat-completion capability was invoked
extract(api_key, outcome, expected_fields, compensated) ==
    IF ~api_key
    THEN [exc |-> "", llm_called |-> FALSE,
          value |-> ErrorResult("OpenAI API key not configured")]
    ELSE LET body == extract_body(outcome, expected_fields, compensated)
         IN  [exc |-> "", llm_called |-> CapabilityInvoked(outcome),
              value |-> IF body.exc # "" THEN ErrorResult(body.exc) ELSE body.value]

-----------------------------------------------------------------------------
(* Inputs the model draws from.                                            *)

\* settings.extraction_confidence_threshold: 0.5, 0.8 (the default), 0.95
Thresholds == {Lit(10), Lit(16), Lit(19)}

\* the i-th expected field is named FieldNames[i]
FieldNames == <<"expiration_date", "limit", "insured", "notes">>

\* the declared types the validators know, and one they do not ("integer")
FieldTypes == {"string", "text", "number", "date", "boolean", "array", "integer"}

S_word == <<W("abc")>>
S_iso == <<N(2025, 4), C("-"), N(12, 2), C("-"), N(31, 2)>>
S_us == <<N(1, 2), C("/"), N(15, 2), C("/"), N(2025, 4)>>

\* values a JSON response can carry for a key
SampleValues ==
    {None, PyStr(S_word), PyStr(S_iso), PyStr(S_us),
     PyStr(<<N(2025, 4), C("-"), N(1, 1), C("-"), N(5, 1)>>),      \* 2025-1-5
     PyStr(<<N(2025, 4), C("-"), N(2, 2), C("-"), N(30, 2)>>),     \* 2025-02-30
     PyStr(<<C("$"), N(1, 1), C(","), N(0, 3)>>),                  \* $1,000
     PyStr(<<N(25, 2), C("/"), N(12, 2), C("/"), N(2025, 4)>>),    \* 25/12/2025
     PyStr(<<W("january"), C(" "), N(15, 2), C(","), C(" "), N(2025, 4)>>),
     PyInt(7), PyFloat(FALSE, 1, 5, 1),
     PyBool(TRUE), PyBool(FALSE), PyList(2), PyDict(EmptyDict)}

\* the key is not in the response at all
Absent == [py |-> "absent"]

\* one expected field together with what the response holds for it; the
\* first field ranges over every type and value, the others over a few
FirstChoices ==
    [type : FieldTypes, required : BOOLEAN, value : SampleValues \cup {Absent}]

OtherChoices ==
    [type : {"string", "date"}, required : BOOLEAN,
     value : {Absent, PyStr(S_word), PyStr(S_iso)}]

ChoiceLists ==
    {<<>>} \cup
    UNION {{<<f>> \o rest : f \in FirstChoices, rest \in [1..(n - 1) -> OtherChoices]}
           : n \in 1..MaxFields}

FieldsOf(choices) ==
    [i \in 1..Len(choices) |->
        [name |-> FieldNames[i], type |-> choices[i].type,
         required |-> choices[i].required]]

RECURSIVE ResponseOf(_)
ResponseOf(choices) ==
    IF choices = <<>> THEN EmptyDict
    ELSE LET n    == Len(choices)
             rest == ResponseOf(SubSeq(choices, 1, n - 1))
         IN  IF choices[n].value = Absent THEN rest
             ELSE DictSet(rest, FieldNames[n], choices[n].value)

Content(segs) == [none |-> FALSE, segs |-> segs]
Returned(content) == [kind |-> "ok", msg |-> "", content |-> content]
Raised(msg) == [kind |-> "raise", msg |-> msg, content |-> Content(<<>>)]
NoClient == [kind |-> "no_client", content |-> Content(<<>>),
             msg |-> "openai package is required for LLM extraction"]

SampleObj == DictSet(EmptyDict, "expiration_date", PyStr(S_iso))

\* responses that are not one bare JSON object, and failed calls
OtherOutcomes ==
    {Raised("API rate limit"), NoClient,
     Returned([none |-> TRUE, segs |-> <<>>]),
     Returned(Content(<<Prose>>)),
     Returned(Content(<<Prose, JsonObj(SampleObj), Prose>>)),
     Returned(Content(<<JsonObj(SampleObj), Prose, JsonObj(SampleObj)>>)),
     Returned(Content(<<Prose, Junk>>)),
     Returned(Content(<<JsonArr>>))}

-----------------------------------------------------------------------------
(* The database: documents, document_types, requirement_types and          *)
(* requirements.  Ids are strings, NoId is a null id.                      *)

NoId == ""

\* DocumentStatus
UPLOADED == "uploaded"
PROCESSING == "processing"
PROCESSED == "processed"
FAILED == "failed"
NEEDS_REVIEW == "needs_review"
DocumentStatus == {UPLOADED, PROCESSING, PROCESSED, FAILED, NEEDS_REVIEW}

\* RequirementStatus
RequirementStatus ==
    {"pending", "in_progress", "compliant", "expiring_soon", "expired",
     "non_compliant", "waived"}

\* a Python str holding a message or a text
Text(m) == PyStr(<<W(m)>>)

MimePdf == [type |-> "application", subtype |-> "pdf"]
MimePng == [type |-> "image", subtype |-> "png"]
\* the content type an upload gets when the client names none
MimeOctet == [type |-> "application", subtype |-> "octet-stream"]

\* a row of documents that was uploaded and never processed
Document(entity_id, document_type_id, mime_type) ==
    [entity_id |-> entity_id, document_type_id |-> document_type_id,
     mime_type |-> mime_type, status |-> UPLOADED, raw_text |-> None,
     extracted_data |-> PyDict(EmptyDict), extraction_confidence |-> None,
     field_confidences |-> PyDict(EmptyDict), processed_at |-> None,
     processing_error |-> None]

\* extraction_schema of a document type: its "properties" in order, each with
\* its "type" if it has one, and its "required" list
Property(name, type) == [name |-> name, has_type |-> type # "", type |-> type]

NoSchema == [truthy |-> FALSE, properties |-> <<>>, required |-> {}]

DocumentType(code, has_prompt, schema) ==
    [py |-> "DocumentType", code |-> code, extraction_prompt |-> has_prompt,
     extraction_schema |-> schema]

\* table document_types ("t_gone" is an id whose row was deleted)
DocumentTypes ==
    [id \in {"t_coi", "t_notes", "t_empty", "t_noprompt"} |->
       CASE id = "t_coi" ->
              DocumentType("coi", TRUE,
                 [truthy |-> TRUE,
                  properties |-> <<Property("expiration_date", "date"),
                                   Property("limit", "number")>>,
                  required |-> {"expiration_date"}])
         [] id = "t_notes" ->
              DocumentType("notes", TRUE,
                 [truthy |-> TRUE,
                  properties |-> <<Property("notes", "")>>,
                  required |-> {}])
         [] id = "t_empty" -> DocumentType("misc", TRUE, NoSchema)
         [] OTHER -> DocumentType("coi", FALSE, NoSchema)]

\* table requirement_types: required_document_types of each
RequirementTypes ==
    [id \in {"rt_coi", "rt_notes", "rt_license"} |->
       CASE id = "rt_coi" -> {"coi"}
         [] id = "rt_notes" -> {"notes", "misc"}
         [] OTHER -> {"license"}]

Requirement(entity_id, requirement_type_id, status) ==
    [entity_id |-> entity_id, requirement_type_id |-> requirement_type_id,
     status |-> status, due_date |-> [y |-> 2024, m |-> 6, d |-> 30],
     document_id |-> NoId]

RequirementIds == {"r1", "r2", "r3", "r4"}

\* the documents a call can name: one that exists, one that does not
ExistingIds == {"d1"}
DocumentIds == ExistingIds \cup {"d9"}

\* what a document row can look like when it is uploaded
DocumentProfiles ==
    {Document("e1", "t_coi", MimePdf),
     Document(NoId, "t_coi", MimePng),
     Document("e1", "t_notes", MimePng),
     Document("e1", "t_empty", MimePdf),
     Document("e1", "t_noprompt", MimePdf),
     Document("e1", "t_gone", MimePdf),
     Document("e1", NoId, MimePdf),
     Document("e1", "t_coi", MimeOctet)}

Callers == {"c1", "c2"}

\* an empty set of column writes
NoWrites == <<>>

\* the row with the column writes applied
Apply(row, writes) ==
    [col \in DOMAIN row |-> IF col \in DOMAIN writes THEN writes[col] ELSE row[col]]

\* one more column write
Set(writes, col, value) ==
    [c \in (DOMAIN writes) \cup {col} |-> IF c = col THEN value ELSE writes[c]]

DocumentProcessingResult(success, document_id, text, extracted_data, confidence, field_confidences, errors, linked_requirement_id) ==
    [success |-> success, document_id |-> document_id, raw_text |-> text,
     extracted_data |-> extracted_data, confidence |-> confidence,
     field_confidences |-> field_confidences, errors |-> errors,
     linked_requirement_id |-> linked_requirement_id]

NoResult ==
    DocumentProcessingResult(FALSE, NoId, PyStr(<<>>), EmptyDict, FZero, EmptyDict, <<>>, NoId)

\* pages a PDF can be rasterized into
MaxPages == 2

\* media types: application/pdf, image/png, image/jpeg, the upload default,
\* and a PDF type written with a parameter
MimePdfCharset == [type |-> "application", subtype |-> "pdf; charset=binary"]
MimeTypes == {MimePdf, MimePng, [type |-> "image", subtype |-> "jpeg"], MimeOctet, MimePdfCharset}

\* what a call of the OCR gateway runs in: the libraries that can be
\* imported, whether the file decodes and into how many pages, the engine
\* settings, and what each engine does when called
OcrEnvs ==
    [pdf2image : BOOLEAN, pillow : BOOLEAN, decodes : BOOLEAN, pages : 0..MaxPages,
     use_google_vision : BOOLEAN, google_vision_api_key : BOOLEAN,
     vision_installed : BOOLEAN, tesseract_available : BOOLEAN,
     cloud : {"text", "error"}, local : {"text", "raise"}]

\* a call record of the OCR code: exc = "" when it returns; units is the
\* number of images whose text it returns; used is what it invoked
OcrReturn(units, used) == [exc |-> "", route |-> "", units |-> units, used |-> used]
OcrRaise(msg, used) == [exc |-> msg, route |-> "", units |-> 0, used |-> used]

\* OCRProcessor._ocr_with_google_vision
ocr_with_google_vision(env) ==
    IF ~env.vision_installed
    THEN OcrRaise("google-cloud-vision is required for Google Vision OCR", {})
    ELSE IF env.cloud = "error" THEN OcrRaise("Google Vision API error", {"cloud"})
    ELSE OcrReturn(1, {"cloud"})

\* OCRProcessor._ocr_with_tesseract
ocr_with_tesseract(env) ==
    IF env.local = "raise" THEN OcrRaise("TesseractError", {"local"})
    ELSE OcrReturn(1, {"local"})

\* _ocr_image preferring the local engine
ocr_image_local_first(env) ==
    IF env.tesseract_available
    THEN ocr_with_tesseract(env)
    ELSE IF env.use_google_vision /\ env.google_vision_api_key
    THEN ocr_with_google_vision(env)
    ELSE OcrRaise("No OCR engine available. Install Tesseract or configure Google Vision API.", {})

\* OCRProcessor._ocr_image: the engine selection
ocr_image(env) ==
    IF env.use_google_vision /\ env.google_vision_api_key
    THEN ocr_with_google_vision(env)
    ELSE IF env.tesseract_available
    THEN ocr_with_tesseract(env)
    ELSE OcrRaise("No OCR engine available. Install Tesseract or configure Google Vision API.", {})

\* OCRProcessor._extract_from_pdf and _extract_from_pdf_bytes: every page
\* is rasterized and read in turn; the first page that raises ends the call
extract_from_pdf(env) ==
    IF ~env.pdf2image THEN OcrRaise("pdf2image is required for PDF processing", {})
    ELSE IF ~env.decodes THEN OcrRaise("PDFPageCountError", {"rasterizer"})
    ELSE IF env.pages = 0 THEN OcrReturn(0, {"rasterizer"})
    ELSE LET page == ocr_image(env)
         IN  IF page.exc # "" THEN OcrRaise(page.exc, page.used \cup {"rasterizer"})
             ELSE OcrReturn(env.pages, page.used \cup {"rasterizer"})

\* OCRProcessor._extract_from_image and _extract_from_image_bytes
extract_from_image(env) ==
    IF ~env.pillow THEN OcrRaise("Pillow is required for image processing", {})
    ELSE IF ~env.decodes THEN OcrRaise("UnidentifiedImageError", {"image_library"})
    ELSE LET image == ocr_image(env)
         IN  [image EXCEPT !.used = @ \cup {"image_library"}]

\* the gateway sending every application/* type to the PDF extraction
gateway_extract_text_by_major_type(variant, mime_type, env) ==
    IF mime_type.type = "application"
    THEN [extract_from_pdf(env) EXCEPT !.route =
             IF variant = "path" THEN "_extract_from_pdf" ELSE "_extract_from_pdf_bytes"]
    ELSE IF mime_type.type = "image"
    THEN [extract_from_image(env) EXCEPT !.route =
             IF variant = "path" THEN "_extract_from_image" ELSE "_extract_from_image_bytes"]
    ELSE OcrRaise("Unsupported MIME type for OCR", {})

\* OCRProcessor.extract_text (variant "path") and extract_text_from_bytes
\* (variant "bytes"): the routing by media type
gateway_extract_text(variant, mime_type, env) ==
    IF mime_type = MimePdf
    THEN [extract_from_pdf(env) EXCEPT !.route =
             IF variant = "path" THEN "_extract_from_pdf" ELSE "_extract_from_pdf_bytes"]
    ELSE IF mime_type.type = "image"
    THEN [extract_from_image(env) EXCEPT !.route =
             IF variant = "path" THEN "_extract_from_image" ELSE "_extract_from_image_bytes"]
    ELSE OcrRaise("Unsupported MIME type for OCR", {})

\* the OCR harness at rest: no arguments and no call record yet
OcrIdle ==
    ocr = [called |-> FALSE]

\* the threads of one server process
Threads == {"t1", "t2"}

\* the lazily created attributes: the module globals of ocr.py and
\* extractor.py, and the client attribute of the extractor instances
Slots == {"_ocr_processor", "_extractor", "client1", "client2"}
Kinds == {"_ocr_processor", "_extractor", "client"}
KindOf(slot) == IF slot \in {"client1", "client2"} THEN "client" ELSE slot

\* nothing created yet, no call of a get function in progress
SingletonsUnset ==
    /\ handle = [s \in Slots |-> 0]
    /\ built = [k \in Kinds |-> 0]
    /\ tpc = [t \in Threads |-> "idle"]
    /\ th = [t \in Threads |-> "_ocr_processor"]
    /\ tgot = [t \in Threads |-> [k \in Kinds |-> {}]]

SettingsInit ==
    /\ threshold \in Thresholds
    /\ apiKey \in BOOLEAN
    /\ sumCompensated \in BOOLEAN

\* the extractor harness at rest
XIdle ==
    /\ xcalled = FALSE
    /\ xfields = <<>>
    /\ xoutcome = Raised("")
    /\ xresult = [exc |-> "", llm_called |-> FALSE, value |-> ErrorResult("")]

\* no call of process_document in progress
CallsIdle ==
    /\ ncalls = 0
    /\ pc = [c \in Callers |-> "idle"]
    /\ arg = [c \in Callers |-> NoId]
    /\ pend = [c \in Callers |-> NoWrites]
    /\ rpend = [c \in Callers |-> NoWrites]
    /\ raw_text = [c \in Callers |-> PyStr(<<>>)]
    /\ document_type = [c \in Callers |-> None]
    /\ extraction_result = [c \in Callers |-> ErrorResult("")]
    /\ linked_id = [c \in Callers |-> NoId]
    /\ exc = [c \in Callers |-> ""]
    /\ dbfault = [c \in Callers |-> FALSE]
    /\ ret = [c \in Callers |-> NoResult]
    /\ invoked = [c \in Callers |-> {}]
    /\ before = [c \in Callers |-> [docs |-> docs, reqs |-> reqs]]

\* the database before any processing: one uploaded document, and the
\* requirements of two entities
DbInit ==
    /\ docs \in [ExistingIds -> DocumentProfiles]
    /\ \E s \in {"expired", "waived"} :
          reqs = [r \in RequirementIds |->
                    CASE r = "r1" -> Requirement("e1", "rt_coi", "pending")
                      [] r = "r2" -> Requirement("e1", "rt_coi", s)
                      [] r = "r3" -> Requirement("e1", "rt_notes", "expiring_soon")
                      [] OTHER -> Requirement("e2", "rt_coi", "pending")]

-----------------------------------------------------------------------------
(* The extractor on its own: extract called with any expected_fields and   *)
(* any behaviour of the chat-completion capability.                        *)

XInit ==
    /\ SettingsInit
    /\ OcrIdle /\ SingletonsUnset /\ openaiInstalled = TRUE
    /\ XIdle
    /\ docs = [d \in ExistingIds |-> Document(NoId, NoId, MimePdf)]
    /\ reqs = [r \in RequirementIds |-> Requirement("e1", "rt_coi", "pending")]
    /\ CallsIdle

XCall(fields, outcome) ==
    /\ xcalled' = TRUE
    /\ xfields' = fields
    /\ xoutcome' = outcome
    /\ xresult' = extract(apiKey, outcome, fields, sumCompensated)
    /\ UNCHANGED <<settingsVars, singletonVars, ocrVars, pvars>>

\* One call per behaviour: extract keeps no state between calls.
\* The capability answers with one JSON object
XExtractObject ==
    /\ ~xcalled
    /\ \E choices \in ChoiceLists, extra \in BOOLEAN :
          /\ extra => Len(choices) <= 1
          /\ LET response == ResponseOf(choices)
                 obj == IF extra THEN DictSet(response, "comment", PyStr(S_word))
                        ELSE response
             IN  XCall(FieldsOf(choices), Returned(Content(<<JsonObj(obj)>>)))

\* the capability fails, or answers with something else
XExtractOther ==
    /\ ~xcalled
    /\ \E choices \in ChoiceLists, outcome \in OtherOutcomes :
          /\ \A i \in 1..Len(choices) : choices[i].value = Absent
          /\ XCall(FieldsOf(choices), outcome)

XNext == XExtractObject \/ XExtractOther

SpecExtract == XInit /\ [][XNext]_vars

-----------------------------------------------------------------------------
(* ocr.py and document_processor.py: the helpers of process_document.      *)

EmptyStr == PyStr(<<>>)

\* "; ".join(errors)
RECURSIVE JoinTokens(_)
JoinTokens(errors) ==
    IF errors = <<>> THEN <<>>
    ELSE IF Len(errors) = 1 THEN <<W(errors[1])>>
    ELSE JoinTokens(SubSeq(errors, 1, Len(errors) - 1))
            \o <<C("; "), W(errors[Len(errors)])>>

Join(errors) == PyStr(JoinTokens(errors))

\* what the OCR engines do with a page: text, or no engine is available
OcrOutcomes ==
    {Return(Text("text A")), Return(Text("text B")),
     Raise("No OCR engine available. Install Tesseract or configure Google Vision API.")}

\* OCRProcessor.extract_text: routing by MIME type
ocr_extract_text(mime_type, engine) ==
    IF mime_type = MimePdf THEN engine
    ELSE IF mime_type.type = "image" THEN engine
    ELSE Raise("Unsupported MIME type for OCR")

\* DocumentProcessor._extract_text; exists is os.path.exists(file_path)
extract_text(document, exists, engine) ==
    IF ~exists THEN Raise("Document file not found")
    ELSE ocr_extract_text(document.mime_type, engine)

\* DocumentProcessor._get_document_type
get_document_type(document) ==
    IF document.document_type_id # NoId
    THEN IF document.document_type_id \in DOMAIN DocumentTypes
         THEN DocumentTypes[document.document_type_id]
         ELSE None
    ELSE None

\* expected_fields as _extract_data builds it from the extraction schema
expected_fields_of(doc_type) ==
    LET schema == doc_type.extraction_schema
    IN  IF schema.truthy
        THEN [i \in 1..Len(schema.properties) |->
                [name |-> schema.properties[i].name,
                 type |-> IF schema.properties[i].has_type
                          THEN schema.properties[i].type ELSE "string",
                 required |-> schema.properties[i].name \in schema.required]]
        ELSE <<>>

NoConfigResult ==
    ExtractionResult(EmptyDict, FZero, EmptyDict, <<>>,
                     <<"No extraction configuration for this document type">>)

\* the document type has an extraction configuration
HasConfig(doc_type) == ~IsNone(doc_type) /\ doc_type.extraction_prompt

\* _extract_data calling the engine for every resolved type, prompt or not
extract_data_prompt_unchecked(doc_type, api_key, outcome, compensated) ==
    IF IsNone(doc_type)
    THEN [exc |-> "", llm_called |-> FALSE, value |-> NoConfigResult]
    ELSE extract(api_key, outcome, expected_fields_of(doc_type), compensated)

\* DocumentProcessor._extract_data, as a call record
extract_data(doc_type, api_key, outcome, compensated) ==
    IF ~HasConfig(doc_type)
    THEN [exc |-> "", llm_called |-> FALSE, value |-> NoConfigResult]
    ELSE extract(api_key, outcome, expected_fields_of(doc_type), compensated)

\* _update_document writing processing_error only when there are errors
update_document_keeping_error(writes, text, result, now, thr) ==
    LET w1 == Set(writes, "raw_text", text)
        w2 == Set(w1, "extracted_data", PyDict(result.data))
        w3 == Set(w2, "extraction_confidence", result.confidence)
        w4 == Set(w3, "field_confidences", PyDict(result.field_confidences))
        w5 == Set(w4, "processed_at", [t |-> now])
        w6 == IF result.errors # <<>>
              THEN Set(w5, "processing_error", Join(result.errors)) ELSE w5
    IN  Set(w6, "status",
            IF result.errors # <<>> /\ ~DictTruthy(result.data) THEN FAILED
            ELSE IF needs_review(result, thr) THEN NEEDS_REVIEW
            ELSE PROCESSED)

\* _update_document with the review test ahead of the FAILED test
update_document_review_first(writes, text, result, now, thr) ==
    LET w1 == Set(writes, "raw_text", text)
        w2 == Set(w1, "extracted_data", PyDict(result.data))
        w3 == Set(w2, "extraction_confidence", result.confidence)
        w4 == Set(w3, "field_confidences", PyDict(result.field_confidences))
        w5 == Set(w4, "processed_at", [t |-> now])
        w6 == Set(w5, "processing_error",
                  IF result.errors # <<>> THEN Join(result.errors) ELSE None)
    IN  Set(w6, "status",
            IF needs_review(result, thr) THEN NEEDS_REVIEW
            ELSE IF result.errors # <<>> /\ ~DictTruthy(result.data) THEN FAILED
            ELSE PROCESSED)

\* DocumentProcessor._update_document: the column writes it adds
update_document(writes, text, result, now, thr) ==
    LET w1 == Set(writes, "raw_text", text)
        w2 == Set(w1, "extracted_data", PyDict(result.data))
        w3 == Set(w2, "extraction_confidence", result.confidence)
        w4 == Set(w3, "field_confidences", PyDict(result.field_confidences))
        w5 == Set(w4, "processed_at", [t |-> now])
        w6 == Set(w5, "processing_error",
                  IF result.errors # <<>> THEN Join(result.errors) ELSE None)
    IN  Set(w6, "status",
            IF result.errors # <<>> /\ ~DictTruthy(result.data) THEN FAILED
            ELSE IF needs_review(result, thr) THEN NEEDS_REVIEW
            ELSE PROCESSED)

\* "if value:" for a value of the extracted data
PyTruthy(value) ==
    IF IsNone(value) THEN FALSE
    ELSE IF value.py = "str" THEN value.s # <<>>
    ELSE truthy(value)

OpenStatuses == {"pending", "expiring_soon", "expired"}

\* the open-requirement query without its status filter
LinkCandidates_any_status(document, requirements) ==
    IF document.entity_id = NoId \/ document.document_type_id = NoId THEN {}
    ELSE LET doc_type == get_document_type(document)
         IN  IF IsNone(doc_type) THEN {}
             ELSE LET req_type_ids ==
                          {rt \in DOMAIN RequirementTypes :
                              doc_type.code \in RequirementTypes[rt]}
                  IN  {r \in DOMAIN requirements :
                          /\ requirements[r].entity_id = document.entity_id
                          /\ requirements[r].requirement_type_id \in req_type_ids}

\* the rows the "open requirement" query of _link_to_requirement matches
\* (an empty set when the linker returns before that query)
LinkCandidates(document, requirements) ==
    IF document.entity_id = NoId \/ document.document_type_id = NoId THEN {}
    ELSE LET doc_type == get_document_type(document)
         IN  IF IsNone(doc_type) THEN {}
             ELSE LET req_type_ids ==
                          {rt \in DOMAIN RequirementTypes :
                              doc_type.code \in RequirementTypes[rt]}
                  IN  {r \in DOMAIN requirements :
                          /\ requirements[r].entity_id = document.entity_id
                          /\ requirements[r].requirement_type_id \in req_type_ids
                          /\ requirements[r].status \in OpenStatuses}

\* _link_to_requirement giving up the link when the date does not parse
link_to_requirement_date_required(document_id, result, requirements, first, thr) ==
    IF first = NoId THEN [linked |-> NoId, writes |-> NoWrites]
    ELSE
      LET expiration_date == DictGet(result.data, "expiration_date")
          parsed == IF PyTruthy(expiration_date) /\ expiration_date.py = "str"
                    THEN strptime(expiration_date.s, FmtISO)
                    ELSE [ok |-> FALSE, y |-> 0, m |-> 0, d |-> 0]
          r1 == [requirements[first] EXCEPT !.document_id = document_id]
          r2 == [r1 EXCEPT !.due_date = [y |-> parsed.y, m |-> parsed.m, d |-> parsed.d]]
          r3 == IF FGeq(result.confidence, thr)
                THEN [r2 EXCEPT !.status = "compliant"]
                ELSE r2
      IN  IF parsed.ok THEN [linked |-> first, writes |-> (first :> r3)]
          ELSE [linked |-> NoId, writes |-> NoWrites]

\* _link_to_requirement accepting only a confidence above the threshold
link_to_requirement_above_threshold(document_id, result, requirements, first, thr) ==
    IF first = NoId THEN [linked |-> NoId, writes |-> NoWrites]
    ELSE
      LET expiration_date == DictGet(result.data, "expiration_date")
          parsed == IF PyTruthy(expiration_date) /\ expiration_date.py = "str"
                    THEN strptime(expiration_date.s, FmtISO)
                    ELSE [ok |-> FALSE, y |-> 0, m |-> 0, d |-> 0]
          r1 == [requirements[first] EXCEPT !.document_id = document_id]
          r2 == IF parsed.ok
                THEN [r1 EXCEPT !.due_date = [y |-> parsed.y, m |-> parsed.m, d |-> parsed.d]]
                ELSE r1
          r3 == IF FLess(thr, result.confidence)
                THEN [r2 EXCEPT !.status = "compliant"]
                ELSE r2
      IN  [linked |-> first, writes |-> (first :> r3)]

\* DocumentProcessor._link_to_requirement once .first() has answered with
\* row first (NoId: no row): the id returned and the column writes made
link_to_requirement(document_id, result, requirements, first, thr) ==
    IF first = NoId THEN [linked |-> NoId, writes |-> NoWrites]
    ELSE
      LET expiration_date == DictGet(result.data, "expiration_date")
          parsed == IF PyTruthy(expiration_date) /\ expiration_date.py = "str"
                    THEN strptime(expiration_date.s, FmtISO)
                    ELSE [ok |-> FALSE, y |-> 0, m |-> 0, d |-> 0]
          r1 == [requirements[first] EXCEPT !.document_id = document_id]
          r2 == IF parsed.ok
                THEN [r1 EXCEPT !.due_date = [y |-> parsed.y, m |-> parsed.m, d |-> parsed.d]]
                ELSE r1
          r3 == IF FGeq(result.confidence, thr)
                THEN [r2 EXCEPT !.status = "compliant"]
                ELSE r2
      IN  [linked |-> first, writes |-> (first :> r3)]

\* the answers the capability can give for a document type: a failed call,
\* prose, or one JSON object with some value or none for each property
ValuesFor(name) ==
    CASE name = "expiration_date" -> {Absent, PyStr(S_iso), PyStr(S_us), PyStr(S_word)}
      [] name = "limit" -> {Absent, PyInt(7)}
      [] OTHER -> {Absent, PyStr(S_word)}

RECURSIVE ResponsesFor(_)
ResponsesFor(properties) ==
    IF properties = <<>> THEN {EmptyDict}
    ELSE LET n == Len(properties)
         IN  {IF v = Absent THEN rest ELSE DictSet(rest, properties[n].name, v) :
                 rest \in ResponsesFor(SubSeq(properties, 1, n - 1)),
                 v \in ValuesFor(properties[n].name)}

OutcomesFor(doc_type) ==
    {Raised("API rate limit"), Returned(Content(<<Prose>>))}
      \cup {Returned(Content(<<JsonObj(obj)>>)) :
               obj \in ResponsesFor(doc_type.extraction_schema.properties)}

-----------------------------------------------------------------------------
(* DocumentProcessor.process_document, one action per step.  A caller's    *)
(* call goes  idle -> ocr -> lookup -> extract -> update -> link -> commit *)
(* -> returned, or at any step of the try block to except and from there   *)
(* to returned or, when the commit of the except clause raises, escaped.   *)
(* Column writes reach the tables at db.commit() only.                     *)

\* calls of process_document in one behaviour
MaxCalls == 2

Goto(c, label) == pc' = [pc EXCEPT ![c] = label]

\* the object loaded for the call: the committed row with the writes made
Loaded(c) == Apply(docs[arg[c]], pend[c])

\* the try block raises: control moves to the except clause
RaiseIn(c, msg, db) ==
    /\ exc' = [exc EXCEPT ![c] = msg]
    /\ dbfault' = [dbfault EXCEPT ![c] = db]
    /\ Goto(c, "except")

\* db.commit() succeeds: the writes of the session reach the tables
CommitWrites(c, writes) ==
    /\ docs' = [docs EXCEPT ![arg[c]] = Apply(@, writes)]
    /\ reqs' = [r \in DOMAIN reqs |->
                  IF r \in DOMAIN rpend[c] THEN rpend[c][r] ELSE reqs[r]]
    /\ pend' = [pend EXCEPT ![c] = NoWrites]
    /\ rpend' = [rpend EXCEPT ![c] = NoWrites]

\* a call begins: its locals are fresh (a request the endpoint has admitted
\* calls with the id it looked up)
Begin(c, id) ==
    /\ pc[c] \in {"idle", "returned", "escaped", "admitted"}
    /\ pc[c] = "admitted" => id = arg[c]
    /\ ncalls < MaxCalls
    /\ ncalls' = ncalls + 1
    /\ arg' = [arg EXCEPT ![c] = id]
    /\ before' = [before EXCEPT ![c] = [docs |-> docs, reqs |-> reqs]]
    /\ invoked' = [invoked EXCEPT ![c] = {}]
    /\ exc' = [exc EXCEPT ![c] = ""]
    /\ dbfault' = [dbfault EXCEPT ![c] = FALSE]
    /\ raw_text' = [raw_text EXCEPT ![c] = EmptyStr]
    /\ document_type' = [document_type EXCEPT ![c] = None]
    /\ extraction_result' = [extraction_result EXCEPT ![c] = ErrorResult("")]
    /\ linked_id' = [linked_id EXCEPT ![c] = NoId]
    /\ UNCHANGED <<settingsVars, singletonVars, ocrVars, xvars, reqs, rpend>>

\* the not-found branch marking every requirement as linked to the id
StartNotFound_writing(c) ==
    \E id \in DocumentIds \ DOMAIN docs :
       /\ pc[c] \in {"idle", "returned", "escaped"}
       /\ ncalls < MaxCalls
       /\ ncalls' = ncalls + 1
       /\ arg' = [arg EXCEPT ![c] = id]
       /\ before' = [before EXCEPT ![c] = [docs |-> docs, reqs |-> reqs]]
       /\ reqs' = [r \in DOMAIN reqs |-> [reqs[r] EXCEPT !.document_id = id]]
       /\ ret' = [ret EXCEPT ![c] =
                    DocumentProcessingResult(FALSE, id, EmptyStr, EmptyDict, FZero,
                                             EmptyDict, <<"Document not found">>, NoId)]
       /\ Goto(c, "returned")
       /\ UNCHANGED <<settingsVars, singletonVars, ocrVars, xvars, docs, pend, rpend, raw_text, document_type,
                      extraction_result, linked_id, exc, dbfault, invoked>>

\* lines 61-67: no such document
StartNotFound(c) ==
    \E id \in DocumentIds \ DOMAIN docs :
       /\ Begin(c, id)
       /\ ret' = [ret EXCEPT ![c] =
                    DocumentProcessingResult(FALSE, id, EmptyStr, EmptyDict, FZero,
                                             EmptyDict, <<"Document not found">>, NoId)]
       /\ Goto(c, "returned")
       /\ UNCHANGED <<docs, pend>>

\* the start of an attempt with PROCESSING written but not committed
StartProcessing_uncommitted(c) ==
    \E id \in DOMAIN docs :
       /\ Begin(c, id)
       /\ pend' = [pend EXCEPT ![c] = Set(NoWrites, "status", PROCESSING)]
       /\ ret' = [ret EXCEPT ![c] = NoResult]
       /\ Goto(c, "ocr")
       /\ UNCHANGED docs

\* lines 61-71: the document is loaded, PROCESSING is written and committed
StartProcessing(c) ==
    \E id \in DOMAIN docs :
       /\ Begin(c, id)
       /\ docs' = [docs EXCEPT ![id].status = PROCESSING]
       /\ pend' = [pend EXCEPT ![c] = NoWrites]
       /\ ret' = [ret EXCEPT ![c] = NoResult]
       /\ Goto(c, "ocr")

\* line 71: the commit of PROCESSING raises; it is in no try block
StartCommitFails(c) ==
    \E id \in DOMAIN docs :
       /\ Begin(c, id)
       /\ pend' = [pend EXCEPT ![c] = NoWrites]
       /\ ret' = [ret EXCEPT ![c] = NoResult]
       /\ Goto(c, "escaped")
       /\ UNCHANGED docs

\* line 75: _extract_text
ExtractText(c) ==
    /\ pc[c] = "ocr"
    /\ \E exists \in BOOLEAN, engine \in OcrOutcomes :
          LET r == extract_text(Loaded(c), exists, engine)
          IN  /\ invoked' = [invoked EXCEPT ![c] = IF exists THEN @ \cup {"ocr"} ELSE @]
              /\ IF r.exc # ""
                 THEN RaiseIn(c, r.exc, FALSE) /\ UNCHANGED raw_text
                 ELSE /\ raw_text' = [raw_text EXCEPT ![c] = r.value]
                      /\ Goto(c, "lookup")
                      /\ UNCHANGED <<exc, dbfault>>
    /\ UNCHANGED <<settingsVars, singletonVars, ocrVars, xvars, dbVars, ncalls, arg, pend, rpend,
                   document_type, extraction_result, linked_id, ret, before>>

\* line 78: _get_document_type
GetDocumentType(c) ==
    /\ pc[c] = "lookup"
    /\ document_type' = [document_type EXCEPT ![c] = get_document_type(Loaded(c))]
    /\ Goto(c, "extract")
    /\ UNCHANGED <<settingsVars, singletonVars, ocrVars, xvars, dbVars, ncalls, arg, pend, rpend, raw_text,
                   extraction_result, linked_id, exc, dbfault, ret, invoked, before>>

\* line 78: the query of _get_document_type raises
GetDocumentTypeFails(c) ==
    /\ pc[c] = "lookup"
    /\ Loaded(c).document_type_id # NoId
    /\ RaiseIn(c, "database error", TRUE)
    /\ UNCHANGED <<settingsVars, singletonVars, ocrVars, xvars, dbVars, ncalls, arg, pend, rpend, raw_text,
                   document_type, extraction_result, linked_id, ret, invoked, before>>

\* line 81: _extract_data
ExtractData(c) ==
    /\ pc[c] = "extract"
    /\ \E outcome \in IF HasConfig(document_type[c])
                      THEN OutcomesFor(document_type[c]) ELSE {NoClient} :
          LET r == extract_data(document_type[c], apiKey, outcome, sumCompensated)
          IN  /\ invoked' = [invoked EXCEPT ![c] =
                               @ \cup (IF HasConfig(document_type[c]) THEN {"extractor"} ELSE {})
                                 \cup (IF r.llm_called THEN {"llm"} ELSE {})]
              /\ IF r.exc # ""
                 THEN RaiseIn(c, r.exc, FALSE) /\ UNCHANGED extraction_result
                 ELSE /\ extraction_result' = [extraction_result EXCEPT ![c] = r.value]
                      /\ Goto(c, "update")
                      /\ UNCHANGED <<exc, dbfault>>
    /\ UNCHANGED <<settingsVars, singletonVars, ocrVars, xvars, dbVars, ncalls, arg, pend, rpend, raw_text,
                   document_type, linked_id, ret, before>>

\* line 84: _update_document
UpdateDocument(c) ==
    /\ pc[c] = "update"
    /\ pend' = [pend EXCEPT ![c] =
                  update_document(@, raw_text[c], extraction_result[c], ncalls, threshold)]
    /\ Goto(c, "link")
    /\ UNCHANGED <<settingsVars, singletonVars, ocrVars, xvars, dbVars, ncalls, arg, rpend, raw_text,
                   document_type, extraction_result, linked_id, exc, dbfault, ret,
                   invoked, before>>

\* the linker run for every document that has an entity
LinkerRuns_entity_only(c) ==
    Loaded(c).entity_id # NoId

\* lines 88-89: the linker runs
LinkerRuns(c) ==
    DictTruthy(extraction_result[c].data) /\ Loaded(c).entity_id # NoId

\* lines 87-89: _link_to_requirement, or nothing
LinkToRequirement(c) ==
    /\ pc[c] = "link"
    /\ IF LinkerRuns(c)
       THEN LET candidates == LinkCandidates(Loaded(c), reqs)
            IN  \E first \in IF candidates = {} THEN {NoId} ELSE candidates :
                   LET l == link_to_requirement(arg[c], extraction_result[c], reqs,
                                                first, threshold)
                   IN  /\ linked_id' = [linked_id EXCEPT ![c] = l.linked]
                       /\ rpend' = [rpend EXCEPT ![c] = l.writes]
                       /\ invoked' = [invoked EXCEPT ![c] = @ \cup {"linker"}]
       ELSE UNCHANGED <<linked_id, rpend, invoked>>
    /\ Goto(c, "commit")
    /\ UNCHANGED <<settingsVars, singletonVars, ocrVars, xvars, dbVars, ncalls, arg, pend, raw_text,
                   document_type, extraction_result, exc, dbfault, ret, before>>

\* line 89: a query of _link_to_requirement raises
LinkToRequirementFails(c) ==
    /\ pc[c] = "link"
    /\ LinkerRuns(c)
    /\ Loaded(c).document_type_id # NoId
    /\ invoked' = [invoked EXCEPT ![c] = @ \cup {"linker"}]
    /\ RaiseIn(c, "database error", TRUE)
    /\ UNCHANGED <<settingsVars, singletonVars, ocrVars, xvars, dbVars, ncalls, arg, pend, rpend, raw_text,
                   document_type, extraction_result, linked_id, ret, before>>

\* lines 91-102: the commit, and the result of a completed call
Commit(c) ==
    /\ pc[c] = "commit"
    /\ CommitWrites(c, pend[c])
    /\ ret' = [ret EXCEPT ![c] =
                 DocumentProcessingResult(TRUE, arg[c], raw_text[c],
                     extraction_result[c].data, extraction_result[c].confidence,
                     extraction_result[c].field_confidences,
                     extraction_result[c].errors, linked_id[c])]
    /\ Goto(c, "returned")
    /\ UNCHANGED <<settingsVars, singletonVars, ocrVars, xvars, ncalls, arg, raw_text, document_type,
                   extraction_result, linked_id, exc, dbfault, invoked, before>>

\* line 91 raising while the session keeps its pending changes
CommitFails_without_rollback(c) ==
    /\ pc[c] = "commit"
    /\ RaiseIn(c, "database error", TRUE)
    /\ UNCHANGED <<settingsVars, singletonVars, ocrVars, xvars, dbVars, ncalls, arg, pend, rpend, raw_text,
                   document_type, extraction_result, linked_id, ret, invoked, before>>

\* line 91: the commit raises; the session rolls the transaction back
CommitFails(c) ==
    /\ pc[c] = "commit"
    /\ pend' = [pend EXCEPT ![c] = NoWrites]
    /\ rpend' = [rpend EXCEPT ![c] = NoWrites]
    /\ RaiseIn(c, "database error", TRUE)
    /\ UNCHANGED <<settingsVars, singletonVars, ocrVars, xvars, dbVars, ncalls, arg, raw_text, document_type,
                   extraction_result, linked_id, ret, invoked, before>>

\* the except clause also storing the confidence 0.0 of its result
HandleException_zero_confidence(c) ==
    /\ pc[c] = "except"
    /\ CommitWrites(c, Set(Set(Set(pend[c], "status", FAILED),
                               "processing_error", Text(exc[c])),
                           "extraction_confidence", FZero))
    /\ ret' = [ret EXCEPT ![c] =
                 DocumentProcessingResult(FALSE, arg[c], EmptyStr, EmptyDict, FZero,
                                          EmptyDict, <<exc[c]>>, NoId)]
    /\ Goto(c, "returned")
    /\ UNCHANGED <<settingsVars, singletonVars, ocrVars, xvars, ncalls, arg, raw_text, document_type,
                   extraction_result, linked_id, exc, dbfault, invoked, before>>

\* lines 104-114: the except clause, its commit succeeding
HandleException(c) ==
    /\ pc[c] = "except"
    /\ CommitWrites(c, Set(Set(pend[c], "status", FAILED),
                           "processing_error", Text(exc[c])))
    /\ ret' = [ret EXCEPT ![c] =
                 DocumentProcessingResult(FALSE, arg[c], EmptyStr, EmptyDict, FZero,
                                          EmptyDict, <<exc[c]>>, NoId)]
    /\ Goto(c, "returned")
    /\ UNCHANGED <<settingsVars, singletonVars, ocrVars, xvars, ncalls, arg, raw_text, document_type,
                   extraction_result, linked_id, exc, dbfault, invoked, before>>

\* line 108: the session that failed in the try block was never rolled back
\* and the commit of the except clause raises too; nothing catches it
HandleExceptionFails(c) ==
    /\ pc[c] = "except"
    /\ dbfault[c]
    /\ pend' = [pend EXCEPT ![c] = NoWrites]
    /\ rpend' = [rpend EXCEPT ![c] = NoWrites]
    /\ Goto(c, "escaped")
    /\ UNCHANGED <<settingsVars, singletonVars, ocrVars, xvars, dbVars, ncalls, arg, raw_text, document_type,
                   extraction_result, linked_id, exc, dbfault, ret, invoked, before>>

\* process_document is called by one caller at a time
Sequential == {"c1"}

Init ==
    /\ SettingsInit
    /\ OcrIdle /\ SingletonsUnset /\ openaiInstalled = TRUE
    /\ XIdle
    /\ DbInit
    /\ CallsIdle

Next ==
    \E c \in Sequential :
       \/ StartNotFound(c)
       \/ StartProcessing(c)
       \/ StartCommitFails(c)
       \/ ExtractText(c)
       \/ GetDocumentType(c)
       \/ GetDocumentTypeFails(c)
       \/ ExtractData(c)
       \/ UpdateDocument(c)
       \/ LinkToRequirement(c)
       \/ LinkToRequirementFails(c)
       \/ Commit(c)
       \/ CommitFails(c)
       \/ HandleException(c)
       \/ HandleExceptionFails(c)

Spec == Init /\ [][Next]_vars

-----------------------------------------------------------------------------
(* documents.py: process_document_endpoint.  Requests for the same         *)
(* document arrive from several callers, each with a database session of   *)
(* its own; a request ends notfound (404), rejected (400), or goes through *)
(* process_document.                                                       *)

\* a request handler starts with nothing left of the caller's previous one
FreshRequest(c) ==
    /\ before' = [before EXCEPT ![c] = [docs |-> docs, reqs |-> reqs]]
    /\ invoked' = [invoked EXCEPT ![c] = {}]
    /\ exc' = [exc EXCEPT ![c] = ""]
    /\ dbfault' = [dbfault EXCEPT ![c] = FALSE]
    /\ raw_text' = [raw_text EXCEPT ![c] = EmptyStr]
    /\ document_type' = [document_type EXCEPT ![c] = None]
    /\ extraction_result' = [extraction_result EXCEPT ![c] = ErrorResult("")]
    /\ linked_id' = [linked_id EXCEPT ![c] = NoId]
    /\ ret' = [ret EXCEPT ![c] = NoResult]

\* lines 295-304 without the status test of lines 306-310
EndpointGuard_unchecked(c) ==
    /\ pc[c] \in {"idle", "returned", "responded", "escaped", "rejected", "notfound"}
    /\ ncalls < MaxCalls
    /\ \E id \in DocumentIds :
          /\ arg' = [arg EXCEPT ![c] = id]
          /\ IF id \notin DOMAIN docs THEN Goto(c, "notfound")
             ELSE Goto(c, "admitted")
    /\ FreshRequest(c)
    /\ UNCHANGED <<settingsVars, singletonVars, ocrVars, xvars, dbVars, ncalls, pend, rpend>>

\* lines 295-310: the document is looked up; 404 when there is none, 400
\* when its status is PROCESSING, otherwise the request goes on to line 313
EndpointGuard(c) ==
    /\ pc[c] \in {"idle", "returned", "responded", "escaped", "rejected", "notfound"}
    /\ ncalls < MaxCalls
    /\ \E id \in DocumentIds :
          /\ arg' = [arg EXCEPT ![c] = id]
          /\ IF id \notin DOMAIN docs THEN Goto(c, "notfound")
             ELSE IF docs[id].status = PROCESSING THEN Goto(c, "rejected")
             ELSE Goto(c, "admitted")
    /\ FreshRequest(c)
    /\ UNCHANGED <<settingsVars, singletonVars, ocrVars, xvars, dbVars, ncalls, pend, rpend>>

\* lines 315-323: the response built from the result of process_document;
\* needs_review compares the confidence with the literal 0.8
ProcessingResultResponse(result) ==
    [success |-> result.success, document_id |-> result.document_id,
     extracted_data |-> result.extracted_data, confidence |-> result.confidence,
     needs_review |-> FLess(result.confidence, Lit(16)),
     errors |-> result.errors,
     linked_requirement_id |-> result.linked_requirement_id]

\* lines 313-323: process_document has returned and the handler returns the
\* response; its locals are gone, and from here on ret[c] is what the
\* client receives
EndpointRespond(c) ==
    /\ pc[c] = "returned"
    /\ ret' = [ret EXCEPT ![c] = ProcessingResultResponse(ret[c])]
    /\ Goto(c, "responded")
    /\ invoked' = [invoked EXCEPT ![c] = {}]
    /\ exc' = [exc EXCEPT ![c] = ""]
    /\ dbfault' = [dbfault EXCEPT ![c] = FALSE]
    /\ raw_text' = [raw_text EXCEPT ![c] = EmptyStr]
    /\ document_type' = [document_type EXCEPT ![c] = None]
    /\ extraction_result' = [extraction_result EXCEPT ![c] = ErrorResult("")]
    /\ linked_id' = [linked_id EXCEPT ![c] = NoId]
    /\ UNCHANGED <<settingsVars, singletonVars, ocrVars, xvars, dbVars, ncalls, arg, pend, rpend, before>>

\* line 313: the admitted request calls process_document
EndpointCall(c) ==
    /\ pc[c] = "admitted"
    /\ (StartProcessing(c) \/ StartCommitFails(c))

\* one uploaded document of an entity with requirements, default settings
EndpointInit ==
    /\ threshold = Lit(16) /\ apiKey = TRUE /\ sumCompensated = TRUE
    /\ OcrIdle /\ SingletonsUnset /\ openaiInstalled = TRUE
    /\ XIdle
    /\ docs = [d \in ExistingIds |-> Document("e1", "t_notes", MimePng)]
    /\ reqs = [r \in RequirementIds |->
                 CASE r = "r1" -> Requirement("e1", "rt_coi", "pending")
                   [] r = "r2" -> Requirement("e1", "rt_notes", "pending")
                   [] r = "r3" -> Requirement("e1", "rt_notes", "compliant")
                   [] OTHER -> Requirement("e2", "rt_coi", "pending")]
    /\ CallsIdle

EndpointNext ==
    \E c \in Callers :
       \/ EndpointGuard(c)
       \/ EndpointCall(c)
       \/ ExtractText(c)
       \/ GetDocumentType(c)
       \/ GetDocumentTypeFails(c)
       \/ ExtractData(c)
       \/ UpdateDocument(c)
       \/ LinkToRequirement(c)
       \/ LinkToRequirementFails(c)
       \/ Commit(c)
       \/ CommitFails(c)
       \/ HandleException(c)
       \/ HandleExceptionFails(c)

\* The response of lines 315-323 is computed from the result alone and
\* touches nothing the callers share; it is part of SpecApi below.
SpecEndpoint == EndpointInit /\ [][EndpointNext]_vars

-----------------------------------------------------------------------------
(* The Processing API under every configuration: one client calling the    *)
(* endpoint, request after request.                                        *)

ApiInit ==
    /\ threshold \in Thresholds /\ apiKey = TRUE /\ sumCompensated = TRUE
    /\ OcrIdle /\ SingletonsUnset /\ openaiInstalled = TRUE
    /\ XIdle
    /\ docs = [d \in ExistingIds |-> Document("e1", "t_coi", MimePdf)]
    /\ reqs = [r \in RequirementIds |->
                 CASE r = "r1" -> Requirement("e1", "rt_coi", "pending")
                   [] r = "r2" -> Requirement("e1", "rt_coi", "expired")
                   [] r = "r3" -> Requirement("e1", "rt_notes", "expiring_soon")
                   [] OTHER -> Requirement("e2", "rt_coi", "pending")]
    /\ CallsIdle

ApiNext ==
    \E c \in Sequential :
       \/ EndpointGuard(c)
       \/ EndpointCall(c)
       \/ ExtractText(c)
       \/ GetDocumentType(c)
       \/ GetDocumentTypeFails(c)
       \/ ExtractData(c)
       \/ UpdateDocument(c)
       \/ LinkToRequirement(c)
       \/ LinkToRequirementFails(c)
       \/ Commit(c)
       \/ CommitFails(c)
       \/ HandleException(c)
       \/ HandleExceptionFails(c)
       \/ EndpointRespond(c)

SpecApi == ApiInit /\ [][ApiNext]_vars

-----------------------------------------------------------------------------
(* ocr.py get_ocr_processor, extractor.py get_llm_extractor and            *)
(* LLMExtractor._get_client: "if x is None: x = X(); return x", called by  *)
(* the threads of one process.  Each statement is one step.                *)

\* the slot a thread can ask for: a module global, or the client of an
\* extractor instance it has received
SlotsFor(t) ==
    {"_ocr_processor", "_extractor"}
      \cup (IF 1 \in tgot[t]["_extractor"] THEN {"client1"} ELSE {})
      \cup (IF 2 \in tgot[t]["_extractor"] THEN {"client2"} ELSE {})

\* a thread calls get_ocr_processor, get_llm_extractor or _get_client
GetCalled(t) ==
    /\ tpc[t] \in {"idle", "done", "raised"}
    /\ \E slot \in SlotsFor(t) : th' = [th EXCEPT ![t] = slot]
    /\ tpc' = [tpc EXCEPT ![t] = "test"]
    /\ UNCHANGED <<settingsVars, ocrVars, xvars, pvars, handle, built, tgot, openaiInstalled>>

\* "if x is None:"
TestNone(t) ==
    /\ tpc[t] = "test"
    /\ tpc' = [tpc EXCEPT ![t] = IF handle[th[t]] = 0 THEN "construct" ELSE "return"]
    /\ UNCHANGED <<settingsVars, ocrVars, xvars, pvars, handle, built, th, tgot, openaiInstalled>>

\* "x = X()": a new instance is constructed and stored
Construct(t) ==
    /\ tpc[t] = "construct"
    /\ KindOf(th[t]) = "client" => openaiInstalled
    /\ built' = [built EXCEPT ![KindOf(th[t])] = @ + 1]
    /\ handle' = [handle EXCEPT ![th[t]] = built[KindOf(th[t])] + 1]
    /\ tpc' = [tpc EXCEPT ![t] = "return"]
    /\ UNCHANGED <<settingsVars, ocrVars, xvars, pvars, th, tgot, openaiInstalled>>

\* _get_client: "from openai import OpenAI" raises ImportError
ImportFails(t) ==
    /\ tpc[t] = "construct"
    /\ KindOf(th[t]) = "client" /\ ~openaiInstalled
    /\ tpc' = [tpc EXCEPT ![t] = "raised"]
    /\ UNCHANGED <<settingsVars, ocrVars, xvars, pvars, handle, built, th, tgot, openaiInstalled>>

\* "return x": the attribute is read again
ReturnHandle(t) ==
    /\ tpc[t] = "return"
    /\ tgot' = [tgot EXCEPT ![t][KindOf(th[t])] = @ \cup {handle[th[t]]}]
    /\ tpc' = [tpc EXCEPT ![t] = "done"]
    /\ UNCHANGED <<settingsVars, ocrVars, xvars, pvars, handle, built, th, openaiInstalled>>

SingletonInit ==
    /\ threshold = Lit(16) /\ apiKey = TRUE /\ sumCompensated = TRUE
    /\ OcrIdle /\ SingletonsUnset /\ openaiInstalled \in BOOLEAN
    /\ XIdle
    /\ docs = [d \in ExistingIds |-> Document(NoId, NoId, MimePdf)]
    /\ reqs = [r \in RequirementIds |-> Requirement("e1", "rt_coi", "pending")]
    /\ CallsIdle

SingletonNext ==
    \E t \in Threads :
       \/ GetCalled(t)
       \/ TestNone(t)
       \/ Construct(t)
       \/ ImportFails(t)
       \/ ReturnHandle(t)

SpecSingleton == SingletonInit /\ [][SingletonNext]_vars

-----------------------------------------------------------------------------
(* The OCR gateway on its own: extract_text and extract_text_from_bytes    *)
(* called with any media type in any environment.                          *)

OcrCall(variant, mime_type, env) ==
    /\ ocr' = [called |-> TRUE,
               input |-> [variant |-> variant, mime_type |-> mime_type, env |-> env],
               result |-> gateway_extract_text(variant, mime_type, env)]
    /\ UNCHANGED <<settingsVars, singletonVars, xvars, pvars>>

\* One call per behaviour: the gateway keeps no state between calls
\* (the lazily created Vision client apart, see SpecSingleton).
OcrFromPath ==
    /\ ~ocr.called
    /\ \E mime_type \in MimeTypes, env \in OcrEnvs : OcrCall("path", mime_type, env)

OcrFromBytes ==
    /\ ~ocr.called
    /\ \E mime_type \in MimeTypes, env \in OcrEnvs : OcrCall("bytes", mime_type, env)

OcrInit ==
    /\ SettingsInit
    /\ OcrIdle /\ SingletonsUnset /\ openaiInstalled = TRUE
    /\ XIdle
    /\ docs = [d \in ExistingIds |-> Document(NoId, NoId, MimePdf)]
    /\ reqs = [r \in RequirementIds |-> Requirement("e1", "rt_coi", "pending")]
    /\ CallsIdle

OcrNext == OcrFromPath \/ OcrFromBytes

SpecOcr == OcrInit /\ [][OcrNext]_vars

-----------------------------------------------------------------------------
(* Properties of process_document (specification Spec).                    *)

\* C1: once _update_document has run, the status written to the document is
\* FAILED when the ExtractionResult has errors and empty data, otherwise
\* NEEDS_REVIEW when its confidence is below the threshold, otherwise
\* PROCESSED; a call that completes persists exactly that status.
C1_StatusRule ==
    \A c \in Callers :
       LET Rule(errors, data, confidence) ==
               IF errors # <<>> /\ data.keys = <<>> THEN FAILED
               ELSE IF FLess(confidence, threshold) THEN NEEDS_REVIEW
               ELSE PROCESSED
       IN  /\ pc[c] \in {"link", "commit"} =>
                pend[c].status = Rule(extraction_result[c].errors,
                                      extraction_result[c].data,
                                      extraction_result[c].confidence)
           /\ pc[c] = "returned" /\ ret[c].success =>
                docs[arg[c]].status = Rule(ret[c].errors, ret[c].extracted_data,
                                           ret[c].confidence)

\* a completed call whose extraction had an error and no data: FAILED, though
\* its confidence 0.0 is below every threshold
C1_Witness ==
    \E c \in Callers :
       /\ pc[c] = "returned" /\ ret[c].success
       /\ ret[c].errors # <<>> /\ ret[c].extracted_data.keys = <<>>
       /\ FLess(ret[c].confidence, threshold)
       /\ docs[arg[c]].status = FAILED

\* C2 (as stated): an exception raised in the try block is always caught:
\* the call returns a failure result carrying the message as its only error,
\* FAILED and the message are persisted, and nothing reaches the caller.
C2_ExceptionCaught ==
    \A c \in Callers :
       exc[c] # "" /\ pc[c] # "except" =>
          /\ pc[c] = "returned"
          /\ docs[arg[c]].status = FAILED
          /\ docs[arg[c]].processing_error = Text(exc[c])
          /\ ~ret[c].success
          /\ ret[c].errors = <<exc[c]>>

\* C3: a call naming no existing document returns success = false with the
\* one error "Document not found", changes no row of documents or
\* requirements, and invokes neither OCR nor the extractor nor the linker.
C3_NotFound ==
    \A c \in Callers :
       pc[c] # "idle" /\ arg[c] \notin DOMAIN docs =>
          /\ pc[c] = "returned"
          /\ ~ret[c].success
          /\ ret[c].errors = <<"Document not found">>
          /\ docs = before[c].docs
          /\ reqs = before[c].reqs
          /\ pend[c] = NoWrites /\ rpend[c] = NoWrites
          /\ invoked[c] = {}

\* a not-found call made after a call that processed the document
C3_Witness ==
    \E c \in Callers :
       /\ pc[c] = "returned" /\ arg[c] \notin DOMAIN docs
       /\ \E d \in DOMAIN docs : docs[d].status = PROCESSED

\* C4: when _extract_text raises, neither the extractor nor the linker is
\* invoked, the call persists FAILED and the message, and raw_text,
\* extracted_data, extraction_confidence, field_confidences and processed_at
\* are as they were when the call began.
C4_OcrFailureFrame ==
    \A c \in Callers :
       LET OcrErrors == {"Document file not found", "Unsupported MIME type for OCR"}
                           \cup ({o.exc : o \in OcrOutcomes} \ {""})
           Kept == {"raw_text", "extracted_data", "extraction_confidence",
                    "field_confidences", "processed_at"}
       IN  exc[c] \in OcrErrors =>
              /\ invoked[c] \cap {"extractor", "llm", "linker"} = {}
              /\ pc[c] = "returned" =>
                    /\ docs[arg[c]].status = FAILED
                    /\ docs[arg[c]].processing_error = Text(exc[c])
                    /\ \A col \in Kept : docs[arg[c]][col] = before[c].docs[arg[c]][col]
                    /\ reqs = before[c].reqs

\* OCR fails on a document that an earlier call had processed
C4_Witness ==
    \E c \in Callers :
       /\ pc[c] = "returned"
       /\ exc[c] = "Document file not found"
       /\ ~IsNone(before[c].docs[arg[c]].raw_text)
       /\ ~IsNone(docs[arg[c]].extraction_confidence)

\* C5 (as stated): once a call that committed PROCESSING on an existing
\* document has come back to its caller, the document is PROCESSED,
\* NEEDS_REVIEW or FAILED: it is not left PROCESSING or UPLOADED.
C5_TerminalAfterCall ==
    \A c \in Callers :
       /\ arg[c] \in DOMAIN docs
       /\ pc[c] = "returned" \/ (pc[c] = "escaped" /\ exc[c] # "")
       => docs[arg[c]].status \in {PROCESSED, NEEDS_REVIEW, FAILED}

\* C6: the committed status of a document changes only from UPLOADED,
\* PROCESSED, NEEDS_REVIEW or FAILED to PROCESSING as a call starts, and from
\* PROCESSING to PROCESSED, NEEDS_REVIEW or FAILED as a call returns; OCR is
\* invoked only while PROCESSING is the committed status.
C6_Transitions ==
    [][\A d \in DOMAIN docs :
         /\ docs'[d].status # docs[d].status =>
              \/ /\ docs[d].status \in {UPLOADED, PROCESSED, NEEDS_REVIEW, FAILED}
                 /\ docs'[d].status = PROCESSING
                 /\ \E c \in Callers : pc[c] # pc'[c] /\ pc'[c] = "ocr" /\ arg'[c] = d
              \/ /\ docs[d].status = PROCESSING
                 /\ docs'[d].status \in {PROCESSED, NEEDS_REVIEW, FAILED}
                 /\ \E c \in Callers : pc[c] # pc'[c] /\ pc'[c] = "returned" /\ arg[c] = d
         /\ \A c \in Callers :
              "ocr" \in invoked'[c] \ invoked[c] /\ arg[c] = d =>
                 docs[d].status = PROCESSING /\ docs'[d] = docs[d]]_vars

\* a second attempt has moved a document from NEEDS_REVIEW to PROCESSING and
\* has invoked OCR
C6_Witness ==
    \E c \in Callers :
       /\ pc[c] = "lookup"
       /\ "ocr" \in invoked[c]
       /\ before[c].docs[arg[c]].status = NEEDS_REVIEW
       /\ docs[arg[c]].status = PROCESSING

\* C7: needs_review holds exactly when the confidence is strictly below the
\* threshold, and a completed call whose extraction had no error and a
\* confidence equal to the threshold leaves the document PROCESSED.
C7_StrictThreshold ==
    \A c \in Callers :
       /\ pc[c] \in {"update", "link", "commit"} =>
             (needs_review(extraction_result[c], threshold)
                 <=> FLess(extraction_result[c].confidence, threshold))
       /\ pc[c] = "returned" /\ ret[c].success /\ ret[c].errors = <<>>
             /\ FEq(ret[c].confidence, threshold) =>
             docs[arg[c]].status = PROCESSED

\* an error-free extraction whose confidence is exactly the threshold
C7_Witness ==
    \E c \in Callers :
       /\ pc[c] = "returned" /\ ret[c].success /\ ret[c].errors = <<>>
       /\ FEq(ret[c].confidence, threshold)
       /\ ret[c].extracted_data.keys # <<>>
       /\ docs[arg[c]].status = PROCESSED

-----------------------------------------------------------------------------
(* Properties of LLMExtractor.extract (specification SpecExtract).         *)

\* C8 (as stated): for a response that is one JSON object, the confidence of
\* each expected field is 0.3 / 0.8 when the value is absent or null and the
\* field is required / optional, 0.95 when it is present and type-valid, 0.5
\* when present and not type-valid, where a number is an int or a float only,
\* a date a string that parses as YYYY-MM-DD, a boolean a bool, an array a
\* list, a string or text a str, and any other declared type is always valid.
C8_ConfidenceTable ==
    xcalled /\ xresult.value.errors = <<>>
            /\ Len(xoutcome.content.segs) = 1 /\ xoutcome.content.segs[1].k = "obj" =>
       LET data == xoutcome.content.segs[1].d
           TypeValid(v, t) ==
               CASE t \in {"string", "text"} -> v.py = "str"
                 [] t = "number" -> v.py \in {"int", "float"}
                 [] t = "date" -> v.py = "str" /\ strptime(v.s, FmtISO).ok
                 [] t = "boolean" -> v.py = "bool"
                 [] t = "array" -> v.py = "list"
                 [] OTHER -> TRUE
           Table(v, f) ==
               IF IsNone(v) THEN (IF f.required THEN Lit(6) ELSE Lit(16))
               ELSE IF TypeValid(v, f.type) THEN Lit(19) ELSE Lit(10)
       IN  \A i \in 1..Len(xfields) :
              DictGet(xresult.value.field_confidences, xfields[i].name)
                 = Table(DictGet(data, xfields[i].name), xfields[i])

\* C9: every field confidence of a result of extract lies in [0,1]; the
\* overall confidence is exactly 0.0 when there is no field confidence, and
\* otherwise is the float sum of the field confidences divided by their
\* number: the arithmetic mean of their decimal values, off the exact mean
\* of the doubles by less than 2^-50, and within [0,1].
C9_MeanConfidence ==
    xcalled =>
       LET r   == xresult.value
           fcs == DictValues(r.field_confidences)
           n   == Len(fcs)
           One == [p |-> 20, q |-> 20, e |-> 0]
           dev == r.confidence.e - SumE(fcs)
       IN  /\ \A i \in 1..n : FGeq(fcs[i], FZero) /\ ~FLess(One, fcs[i])
           /\ n = 0 => r.confidence = FZero
           /\ n > 0 =>
                /\ r.confidence.q = 20 * n
                /\ r.confidence.p = SumP(fcs)
                /\ dev < 32 * r.confidence.q /\ -dev < 32 * r.confidence.q
           /\ FGeq(r.confidence, FZero) /\ ~FLess(One, r.confidence)
           /\ xresult.exc = "" /\ r.errors = <<>> => n = Len(xfields)

\* a result with as many field confidences as the bound allows, not all equal
C9_Witness ==
    /\ xcalled
    /\ Len(xresult.value.field_confidences.keys) = MaxFields
    /\ \E i, j \in 1..MaxFields :
          ~FEq(DictValues(xresult.value.field_confidences)[i],
               DictValues(xresult.value.field_confidences)[j])

\* C10: extract never raises; without a credential it returns without
\* invoking the capability; when the client, the capability or any later
\* statement of its try block fails it returns; in both cases the result has
\* empty data, confidence 0.0, no field confidences and exactly one error.
C10_ExtractNeverRaises ==
    xcalled =>
       LET r == xresult.value
           ErrorShape == /\ r.data = EmptyDict
                         /\ r.confidence = FZero
                         /\ r.field_confidences = EmptyDict
                         /\ Len(r.errors) = 1
       IN  /\ xresult.exc = ""
           /\ ~apiKey => ~xresult.llm_called /\ ErrorShape
                            /\ r.errors = <<"OpenAI API key not configured">>
           /\ apiKey /\ extract_body(xoutcome, xfields, sumCompensated).exc # "" =>
                 ErrorShape
           /\ apiKey /\ xoutcome.kind = "raise" => r.errors = <<xoutcome.msg>>

\* the capability was invoked and raised
C10_Witness ==
    /\ xcalled /\ apiKey
    /\ xoutcome.kind = "raise" /\ xresult.llm_called
    /\ xresult.value.errors = <<"API rate limit">>

-----------------------------------------------------------------------------
(* Claims about the response parser and the cleaning of values.            *)

\* C11: for every response text (prose, JSON objects and other brace
\* text), _parse_response returns without raising and returns a map: the
\* directly parsed object when the whole text is one, else the object of
\* the one brace span that parses, else the empty map (also when the braces
\* are not valid JSON or there are several objects).
C11_ParseNeverThrows ==
    (/\ xcalled /\ apiKey /\ xoutcome.kind = "ok" /\ ~xoutcome.content.none
     /\ \A i \in 1..Len(xoutcome.content.segs) : xoutcome.content.segs[i].k # "arr") =>
        LET segs   == xoutcome.content.segs
            parsed == parse_response(xoutcome.content)
            spans  == {i \in 1..Len(segs) : segs[i].k \in {"obj", "junk"}}
        IN  /\ parsed.exc = ""
            /\ parsed.value.py = "dict"
            /\ parsed.value.d =
                 IF Len(segs) = 1 /\ segs[1].k = "obj" THEN segs[1].d
                 ELSE IF \E i \in spans : spans = {i} /\ segs[i].k = "obj"
                 THEN segs[CHOOSE i \in spans : TRUE].d
                 ELSE EmptyDict

-----------------------------------------------------------------------------
(* Claims about the linker.                                                *)

\* C12: when the open-requirement query finds a row, the linker links it:
\* it returns the row's id and sets the row's document_id to the document;
\* it sets due_date to the extracted expiration_date exactly when that
\* value is a string that parses as YYYY-MM-DD, and otherwise (missing,
\* null, not a string, malformed) leaves due_date as it was, without error.
\* The completed call persists these columns.
C12_LinkSetsDueDate ==
    \A c \in Callers :
       LET data   == IF pc[c] = "returned" THEN ret[c].extracted_data
                     ELSE extraction_result[c].data
           value  == DictGet(data, "expiration_date")
           isdate == value.py = "str" /\ strptime(value.s, FmtISO).ok
           dt     == strptime(value.s, FmtISO)
           due(old) == IF isdate THEN [y |-> dt.y, m |-> dt.m, d |-> dt.d] ELSE old
       IN  /\ (pc[c] = "commit" /\ "linker" \in invoked[c]
                 /\ LinkCandidates(Loaded(c), reqs) # {}) =>
                 /\ linked_id[c] \in LinkCandidates(Loaded(c), reqs)
                 /\ linked_id[c] \in DOMAIN rpend[c]
                 /\ rpend[c][linked_id[c]].document_id = arg[c]
                 /\ rpend[c][linked_id[c]].due_date = due(reqs[linked_id[c]].due_date)
           /\ (pc[c] = "returned" /\ ret[c].success /\ ret[c].linked_requirement_id # NoId) =>
                 LET r == ret[c].linked_requirement_id
                 IN  /\ reqs[r].document_id = arg[c]
                     /\ reqs[r].due_date = due(before[c].reqs[r].due_date)

\* a completed call linked a requirement and moved its due date to the
\* extracted expiration date, which the response gave as 01/15/2025
C12_Witness ==
    /\ pc["c1"] = "returned" /\ ret["c1"].success
    /\ ret["c1"].linked_requirement_id # NoId
    /\ reqs[ret["c1"].linked_requirement_id].document_id = "d1"
    /\ reqs[ret["c1"].linked_requirement_id].due_date = [y |-> 2025, m |-> 1, d |-> 15]
    /\ before["c1"].reqs[ret["c1"].linked_requirement_id].due_date # [y |-> 2025, m |-> 1, d |-> 15]

\* C13: on a match the linker moves the requirement to compliant exactly
\* when the extraction confidence is at least the configured threshold (a
\* confidence equal to the threshold is accepted); below the threshold the
\* status stays what it was, while document_id is still set.  The completed
\* call persists that status.
C13_CompliantAtThreshold ==
    \A c \in Callers :
       /\ (pc[c] = "commit" /\ linked_id[c] # NoId) =>
             LET r == linked_id[c]
             IN  /\ rpend[c][r].document_id = arg[c]
                 /\ rpend[c][r].status =
                       IF FLess(extraction_result[c].confidence, threshold)
                       THEN reqs[r].status ELSE "compliant"
       /\ (pc[c] = "returned" /\ ret[c].success /\ ret[c].linked_requirement_id # NoId) =>
             LET r == ret[c].linked_requirement_id
             IN  /\ reqs[r].document_id = arg[c]
                 /\ reqs[r].status =
                       IF FLess(ret[c].confidence, threshold)
                       THEN before[c].reqs[r].status ELSE "compliant"

\* a completed call whose confidence equals the threshold moved an open
\* requirement to compliant
C13_Witness ==
    /\ pc["c1"] = "returned" /\ ret["c1"].success
    /\ ret["c1"].linked_requirement_id # NoId
    /\ FEq(ret["c1"].confidence, threshold)
    /\ before["c1"].reqs[ret["c1"].linked_requirement_id].status \in OpenStatuses
    /\ reqs[ret["c1"].linked_requirement_id].status = "compliant"

\* C14: one run of the linker modifies at most one requirement, and only a
\* requirement of the document's entity whose requirement type lists the
\* document type's code and whose status was pending, expiring_soon or
\* expired.  When the document has no entity or no document type, the type
\* cannot be resolved, no requirement type accepts the code or no such open
\* requirement exists, it returns null and modifies nothing.
C14_LinkerFrame ==
    \A c \in Callers :
       LET document == IF arg[c] \in DOMAIN docs THEN docs[arg[c]] ELSE Document(NoId, NoId, MimePdf)
           accepts(r, table) ==
               /\ document.entity_id # NoId
               /\ table[r].entity_id = document.entity_id
               /\ document.document_type_id \in DOMAIN DocumentTypes
               /\ DocumentTypes[document.document_type_id].code
                     \in RequirementTypes[table[r].requirement_type_id]
               /\ table[r].status \in {"pending", "expiring_soon", "expired"}
       IN  /\ pc[c] = "commit" =>
                /\ DOMAIN rpend[c] = {linked_id[c]} \ {NoId}
                /\ linked_id[c] # NoId => accepts(linked_id[c], reqs)
                /\ (\A r \in DOMAIN reqs : ~accepts(r, reqs)) =>
                       linked_id[c] = NoId /\ rpend[c] = NoWrites
           /\ (pc[c] = "returned" /\ arg[c] \in DOMAIN docs) =>
                /\ \A r \in DOMAIN reqs :
                      reqs[r] # before[c].reqs[r] =>
                          r = ret[c].linked_requirement_id /\ accepts(r, before[c].reqs)
                /\ (\A r \in DOMAIN reqs : ~accepts(r, before[c].reqs)) =>
                       ret[c].linked_requirement_id = NoId /\ reqs = before[c].reqs

\* the linker ran for a document whose entity had two open requirements of
\* an accepting type: one was linked, the other is as it was
C14_Witness ==
    /\ pc["c1"] = "returned" /\ ret["c1"].success
    /\ ret["c1"].linked_requirement_id # NoId
    /\ reqs[ret["c1"].linked_requirement_id] # before["c1"].reqs[ret["c1"].linked_requirement_id]
    /\ \E r \in DOMAIN reqs :
          /\ r # ret["c1"].linked_requirement_id
          /\ reqs[r].entity_id = reqs[ret["c1"].linked_requirement_id].entity_id
          /\ reqs[r].requirement_type_id = reqs[ret["c1"].linked_requirement_id].requirement_type_id
          /\ reqs[r].status \in OpenStatuses
          /\ reqs[r] = before["c1"].reqs[r]

\* C15: process_document invokes the linker exactly when the extracted data
\* is non-empty and the document has an entity, and only after the
\* document's terminal status has been derived.  The link step leaves the
\* document's pending and committed columns alone, so status, extracted
\* data and confidence are what the update step derived, and the result's
\* linked_requirement_id is what the linker returned.
C15_LinkerCall ==
    [][\A c \in Callers :
         /\ (pc[c] = "link" /\ pc'[c] # "link") =>
               /\ "linker" \in invoked'[c] <=>
                     (/\ extraction_result[c].data.keys # <<>>
                      /\ docs[arg[c]].entity_id # NoId)
               /\ "status" \in DOMAIN pend[c]
               /\ pend[c]["status"] \in {PROCESSED, FAILED, NEEDS_REVIEW}
               /\ docs' = docs
               /\ pc'[c] = "commit" => pend'[c] = pend[c]
         /\ (pc[c] = "commit" /\ pc'[c] = "returned") =>
               /\ ret'[c].linked_requirement_id = linked_id[c]
               /\ docs'[arg[c]].status = pend[c]["status"]
               /\ docs'[arg[c]].extracted_data = PyDict(extraction_result[c].data)
               /\ docs'[arg[c]].extraction_confidence = extraction_result[c].confidence
               /\ docs'[arg[c]].status =
                     IF extraction_result[c].errors # <<>> /\ extraction_result[c].data.keys = <<>>
                     THEN FAILED
                     ELSE IF FLess(extraction_result[c].confidence, threshold)
                     THEN NEEDS_REVIEW ELSE PROCESSED
      ]_vars

\* a completed call in which the linker ran and linked a requirement while
\* the document ended in NEEDS_REVIEW
C15_Witness ==
    /\ pc["c1"] = "returned" /\ ret["c1"].success
    /\ "linker" \in invoked["c1"]
    /\ ret["c1"].linked_requirement_id # NoId
    /\ reqs[ret["c1"].linked_requirement_id].document_id = ret["c1"].document_id
    /\ docs[ret["c1"].document_id].status = NEEDS_REVIEW

-----------------------------------------------------------------------------
(* Claims about the extraction step of the pipeline.                       *)

\* C16: when the document has no resolvable document type, or its type has
\* no extraction prompt, process_document does not invoke the extraction
\* engine and does not abort: the step yields an ExtractionResult with empty
\* data, confidence 0, empty field confidences and the single error "No
\* extraction configuration for this document type"; the OCR text is still
\* persisted as raw_text, and the linker is not invoked.
C16_NoConfiguration ==
    \A c \in Callers :
       LET id       == IF arg[c] \in DOMAIN docs THEN docs[arg[c]].document_type_id ELSE NoId
           noconfig == \/ id \notin DOMAIN DocumentTypes
                       \/ ~DocumentTypes[id].extraction_prompt
           message  == "No extraction configuration for this document type"
       IN  (arg[c] \in DOMAIN docs /\ noconfig) =>
             /\ invoked[c] \subseteq {"ocr"}
             /\ pc[c] \in {"update", "link", "commit"} =>
                   /\ extraction_result[c].data = EmptyDict
                   /\ extraction_result[c].confidence = FZero
                   /\ extraction_result[c].field_confidences = EmptyDict
                   /\ extraction_result[c].errors = <<message>>
             /\ pc[c] = "except" => exc[c] # message
             /\ pc[c] = "commit" =>
                   /\ pend[c]["raw_text"] = raw_text[c]
                   /\ rpend[c] = NoWrites /\ linked_id[c] = NoId
             /\ (pc[c] = "returned" /\ ret[c].success) =>
                   /\ ret[c].errors = <<message>>
                   /\ ret[c].extracted_data = EmptyDict /\ ret[c].confidence = FZero
                   /\ ret[c].linked_requirement_id = NoId
                   /\ docs[arg[c]].raw_text = ret[c].raw_text
                   /\ docs[arg[c]].raw_text = raw_text[c]
                   /\ reqs = before[c].reqs

\* a completed call on a document whose type has no extraction prompt: the
\* OCR text is stored and the result carries the configuration error
C16_Witness ==
    /\ pc["c1"] = "returned" /\ ret["c1"].success
    /\ docs["d1"].document_type_id = "t_noprompt"
    /\ ret["c1"].errors = <<"No extraction configuration for this document type">>
    /\ "ocr" \in invoked["c1"] /\ "extractor" \notin invoked["c1"]
    /\ docs["d1"].raw_text = ret["c1"].raw_text
    /\ ret["c1"].raw_text # EmptyStr

-----------------------------------------------------------------------------
(* Claims about the maps and values extract returns.                       *)

\* C17: for every extract call whose model call returned a response text,
\* the keys of field_confidences and the keys of data are both exactly the
\* expected field names: every expected field is scored and is in data
\* (null when the response has no value for it), and a key of the response
\* that is not an expected field is in neither map.
C17_KeySets ==
    (/\ xcalled /\ apiKey /\ xoutcome.kind = "ok" /\ ~xoutcome.content.none
     /\ \A i \in 1..Len(xoutcome.content.segs) : xoutcome.content.segs[i].k # "arr") =>
        LET names  == {xfields[i].name : i \in 1..Len(xfields)}
            result == xresult.value
            keys(d) == {d.keys[i] : i \in 1..Len(d.keys)}
        IN  /\ keys(result.field_confidences) = names
            /\ keys(result.data) = names
            /\ Len(result.data.keys) = Len(xfields)
            /\ Len(result.field_confidences.keys) = Len(xfields)

\* C18 as stated: cleaning a string value of a date-typed field tries, in
\* order, exactly YYYY-MM-DD, MM/DD/YYYY, MM-DD-YYYY, "Month D, YYYY" and
\* "Mon D, YYYY"; the first that parses wins and the value is re-emitted as
\* YYYY-MM-DD; a string matching none of these is returned unchanged.
C18_DateFormats_AsStated ==
    (xcalled /\ xresult.value.errors = <<>>) =>
        \A i \in 1..Len(xfields) :
           LET value == DictGet(parse_response(xoutcome.content).value.d, xfields[i].name)
               fmts  == << <<"%Y", "-", "%m", "-", "%d">>,
                           <<"%m", "/", "%d", "/", "%Y">>,
                           <<"%m", "-", "%d", "-", "%Y">>,
                           <<"%B", " ", "%d", ",", " ", "%Y">>,
                           <<"%b", " ", "%d", ",", " ", "%Y">> >>
               wins(k) == /\ strptime(value.s, fmts[k]).ok
                          /\ \A j \in 1..(k - 1) : ~strptime(value.s, fmts[j]).ok
           IN  (xfields[i].type = "date" /\ value.py = "str") =>
                  DictGet(xresult.value.data, xfields[i].name) =
                     IF \E k \in 1..Len(fmts) : wins(k)
                     THEN PyStr(strftime_iso(strptime(value.s,
                                    fmts[CHOOSE k \in 1..Len(fmts) : wins(k)])))
                     ELSE value

\* C18, amended: the formats tried are, in order, YYYY-MM-DD, MM/DD/YYYY,
\* MM-DD-YYYY, DD/MM/YYYY, "Month D, YYYY" and "Mon D, YYYY"; the first
\* that parses wins and the value is re-emitted as YYYY-MM-DD; a string
\* matching none of the six is returned unchanged.
C18_DateFormats ==
    (xcalled /\ xresult.value.errors = <<>>) =>
        \A i \in 1..Len(xfields) :
           LET value == DictGet(parse_response(xoutcome.content).value.d, xfields[i].name)
               fmts  == << <<"%Y", "-", "%m", "-", "%d">>,
                           <<"%m", "/", "%d", "/", "%Y">>,
                           <<"%m", "-", "%d", "-", "%Y">>,
                           <<"%d", "/", "%m", "/", "%Y">>,
                           <<"%B", " ", "%d", ",", " ", "%Y">>,
                           <<"%b", " ", "%d", ",", " ", "%Y">> >>
               wins(k) == /\ strptime(value.s, fmts[k]).ok
                          /\ \A j \in 1..(k - 1) : ~strptime(value.s, fmts[j]).ok
           IN  (xfields[i].type = "date" /\ value.py = "str") =>
                  DictGet(xresult.value.data, xfields[i].name) =
                     IF \E k \in 1..Len(fmts) : wins(k)
                     THEN PyStr(strftime_iso(strptime(value.s,
                                    fmts[CHOOSE k \in 1..Len(fmts) : wins(k)])))
                     ELSE value

\* the response gave 25/12/2025 for a date field, which only the day-first
\* format parses, and the data holds 2025-12-25
C18_Witness ==
    /\ xcalled /\ xresult.value.errors = <<>>
    /\ Len(xfields) >= 1 /\ xfields[1].type = "date"
    /\ DictGet(parse_response(xoutcome.content).value.d, xfields[1].name) =
          PyStr(<<N(25, 2), C("/"), N(12, 2), C("/"), N(2025, 4)>>)
    /\ DictGet(xresult.value.data, xfields[1].name) =
          PyStr(<<N(2025, 4), C("-"), N(12, 2), C("-"), N(25, 2)>>)

\* C19: cleaning is idempotent for number, date and boolean fields: the
\* value extract stored for such a field is clean(x, t) of the response
\* value x, and cleaning it again under the same type returns it unchanged.
C19_CleanIdempotent ==
    (xcalled /\ xresult.value.errors = <<>>) =>
        \A i \in 1..Len(xfields) :
           LET x       == DictGet(parse_response(xoutcome.content).value.d, xfields[i].name)
               cleaned == DictGet(xresult.value.data, xfields[i].name)
               t       == xfields[i].type
           IN  t \in {"number", "date", "boolean"} =>
                  /\ cleaned = clean_value(x, t)
                  /\ clean_value(cleaned, t) = cleaned

\* the response gave the string $1,000 for a number field and the data
\* holds a float, which a second cleaning has to leave alone
C19_Witness ==
    /\ xcalled /\ xresult.value.errors = <<>>
    /\ Len(xfields) >= 1 /\ xfields[1].type = "number"
    /\ DictGet(parse_response(xoutcome.content).value.d, xfields[1].name) =
          PyStr(<<C("$"), N(1, 1), C(","), N(0, 3)>>)
    /\ DictGet(xresult.value.data, xfields[1].name).py = "float"
    /\ DictGet(xresult.value.data, xfields[1].name).i = 1000

-----------------------------------------------------------------------------
(* Claims about the processing endpoint (specification SpecEndpoint).      *)

\* C20: a request to process a document whose persisted status is
\* PROCESSING is rejected by the endpoint's guard: the pipeline is not
\* invoked for it and no table is changed (and the guard rejects for no
\* other reason).  process_document itself has no such test: an admitted
\* request can start its attempt whatever the status has become, and the
\* start writes PROCESSING.
C20_GuardRejects ==
    /\ [](\A c \in Callers :
            (pc[c] = "admitted" /\ ncalls < MaxCalls) => ENABLED StartProcessing(c))
    /\ [][\A c \in Callers :
            /\ (/\ pc'[c] \in {"admitted", "rejected", "notfound"}
                /\ (pc'[c] # pc[c] \/ arg'[c] # arg[c])) =>
                  /\ docs' = docs /\ reqs' = reqs /\ ncalls' = ncalls
                  /\ pend' = pend /\ rpend' = rpend
                  /\ pc'[c] = "rejected" <=>
                        (arg'[c] \in DOMAIN docs /\ docs[arg'[c]].status = PROCESSING)
            /\ pc[c] = "rejected" =>
                  /\ pc'[c] \in {"admitted", "rejected", "notfound"}
                  /\ invoked'[c] = {}
            /\ (pc[c] = "admitted" /\ pc'[c] = "ocr") =>
                  docs'[arg[c]].status = PROCESSING
       ]_vars

\* while one request's attempt is in flight, the other caller's request
\* for the same document has been rejected
C20_Witness ==
    /\ pc["c1"] \in {"ocr", "lookup", "extract", "update", "link", "commit"}
    /\ pc["c2"] = "rejected" /\ arg["c2"] = arg["c1"]
    /\ docs[arg["c1"]].status = PROCESSING
    /\ invoked["c2"] = {}

-----------------------------------------------------------------------------
(* Claims about the lazily created engine handles (SpecSingleton).         *)

\* C21: for any interleaving of concurrent first calls of get_ocr_processor,
\* get_llm_extractor and _get_client, only one instance of each is ever
\* constructed, and every caller, then and later, receives that instance.
C21_InitializedOnce ==
    \A k \in Kinds :
       /\ built[k] <= 1
       /\ Cardinality(UNION {tgot[t][k] : t \in Threads}) <= 1


-----------------------------------------------------------------------------
(* Properties of the OCR gateway (specification SpecOcr).                  *)

Unsupported(mime_type) == mime_type # MimePdf /\ mime_type.type # "image"
CloudUsable(env) == env.use_google_vision /\ env.google_vision_api_key
NoEngineMessage == "No OCR engine available. Install Tesseract or configure Google Vision API."

\* C22: extract_text and extract_text_from_bytes route alike: application/pdf
\* goes to the per-page PDF extraction of the variant, every image/* type to
\* the single-image extraction of the variant, and every other media type
\* raises the unsupported-type error with no engine, rasterizer or image
\* library invoked.
C22_Routing ==
    ocr.called =>
        LET m == ocr.input.mime_type
            suffix == IF ocr.input.variant = "path" THEN "" ELSE "_bytes"
        IN  /\ m = MimePdf =>
                  /\ ocr.result.route = IF suffix = "" THEN "_extract_from_pdf" ELSE "_extract_from_pdf_bytes"
                  /\ ocr.result.exc = "" => ocr.result.units = ocr.input.env.pages
                  /\ "image_library" \notin ocr.result.used
            /\ m.type = "image" =>
                  /\ ocr.result.route = IF suffix = "" THEN "_extract_from_image" ELSE "_extract_from_image_bytes"
                  /\ ocr.result.exc = "" => ocr.result.units = 1
                  /\ "rasterizer" \notin ocr.result.used
            /\ Unsupported(m) =>
                  /\ ocr.result.exc = "Unsupported MIME type for OCR"
                  /\ ocr.result.route = ""
                  /\ ocr.result.used = {}

\* an unsupported application/* type given to the byte-buffer variant on a
\* machine where every library and both engines would work
C22_Witness ==
    /\ ocr.called
    /\ ocr.input.variant = "bytes"
    /\ ocr.input.mime_type = MimePdfCharset
    /\ ocr.input.env.pdf2image /\ ocr.input.env.decodes /\ ocr.input.env.pages > 0
    /\ ocr.input.env.tesseract_available /\ ocr.input.env.local = "text"
    /\ ocr.result.exc = "Unsupported MIME type for OCR"

\* C23 as stated: a usable cloud engine is used and the local one is never
\* invoked, otherwise the local one if available, and EVERY call on a
\* supported media type with neither engine usable fails with the
\* no-engine-available error.
C23_EngineSelection_AsStated ==
    (ocr.called /\ ~Unsupported(ocr.input.mime_type)) =>
        LET env == ocr.input.env
        IN  /\ CloudUsable(env) => "local" \notin ocr.result.used
            /\ (~CloudUsable(env) /\ env.tesseract_available) => "cloud" \notin ocr.result.used
            /\ (~CloudUsable(env) /\ ~env.tesseract_available) => ocr.result.exc = NoEngineMessage

\* the extraction hands at least one image to _ocr_image: the library it
\* needs is installed, the file decodes, and a PDF has a page
ReachesEngine(mime_type, env) ==
    /\ env.decodes
    /\ IF mime_type = MimePdf THEN env.pdf2image /\ env.pages > 0 ELSE env.pillow

\* C23: a usable cloud engine is used and the local one is never invoked,
\* also when the cloud call fails; otherwise the local engine is used if
\* available; with neither usable no engine is invoked, and the call fails
\* with the no-engine-available error whenever an image reaches the engine
\* selection (a missing library or an undecodable file fails earlier with
\* its own error, and a PDF without pages returns empty text).
C23_EngineSelection ==
    (ocr.called /\ ~Unsupported(ocr.input.mime_type)) =>
        LET env == ocr.input.env
            reaches == ReachesEngine(ocr.input.mime_type, env)
        IN  /\ CloudUsable(env) =>
                  /\ "local" \notin ocr.result.used
                  /\ (reaches /\ env.vision_installed) => "cloud" \in ocr.result.used
                  /\ (reaches /\ env.vision_installed /\ env.cloud = "error") => ocr.result.exc = "Google Vision API error"
            /\ (~CloudUsable(env) /\ env.tesseract_available) =>
                  /\ "cloud" \notin ocr.result.used
                  /\ reaches => "local" \in ocr.result.used
            /\ (~CloudUsable(env) /\ ~env.tesseract_available) =>
                  /\ ocr.result.used \cap {"cloud", "local"} = {}
                  /\ reaches <=> ocr.result.exc = NoEngineMessage

\* the cloud engine is usable and its call fails while the local engine
\* would have worked
C23_Witness ==
    /\ ocr.called
    /\ ocr.input.mime_type = MimePng
    /\ ReachesEngine(ocr.input.mime_type, ocr.input.env)
    /\ CloudUsable(ocr.input.env) /\ ocr.input.env.vision_installed /\ ocr.input.env.cloud = "error"
    /\ ocr.input.env.tesseract_available /\ ocr.input.env.local = "text"
    /\ ocr.result.exc = "Google Vision API error"
    /\ ocr.result.used = {"cloud", "image_library"}


-----------------------------------------------------------------------------
(* Properties of the Processing API (specification SpecApi).               *)

\* C24: the needs_review flag of every response of the Processing API is
\* (confidence of the response < settings.extraction_confidence_threshold),
\* whatever the threshold is configured to.
C24_NeedsReviewFollowsThreshold ==
    \A c \in Callers :
       pc[c] = "responded" =>
          (ret[c].needs_review <=> FLess(ret[c].confidence, threshold))


-----------------------------------------------------------------------------
(* Further properties of process_document (specification Spec).            *)

\* C25: when process_document returns for an existing document, the success
\* flag of the result is FALSE exactly when the document's status is FAILED.
C25_SuccessIffNotFailed ==
    \A c \in Callers :
       (pc[c] = "returned" /\ arg[c] \in DOMAIN docs) =>
          (~ret[c].success <=> docs[arg[c]].status = FAILED)


-----------------------------------------------------------------------------
(* Further properties of the endpoint (specification SpecEndpoint).        *)

\* a request that has passed the guard and whose process_document call has
\* started and not yet returned
InFlight(c) == pc[c] \in {"ocr", "lookup", "extract", "update", "link", "commit", "except"}

\* C26: of two requests for the same document that both go through the
\* endpoint's guard, at most one runs the pipeline: in no reachable state
\* are two attempts on one document in flight.
C26_OneAttemptInFlight ==
    \A c1, c2 \in Callers :
       (c1 # c2 /\ InFlight(c1) /\ InFlight(c2)) => arg[c1] # arg[c2]


\* C27: with the default threshold 0.8, a call of process_document whose
\* extraction holds no value (every field of the returned data is null, or
\* the data is empty) moves no requirement to compliant.
C27_NoCompliantWithoutValues ==
    \A c \in Callers :
       (/\ pc[c] = "returned" /\ ret[c].success
        /\ threshold = Lit(16)
        /\ \A k \in DOMAIN ret[c].extracted_data.val : IsNone(ret[c].extracted_data.val[k])) =>
          \A r \in RequirementIds :
             reqs[r].status = "compliant" => before[c].reqs[r].status = "compliant"


\* C28: whatever calls of process_document have been made, at most one
\* requirement references a document through document_id: processing the
\* document again does not link it to a second requirement.
C28_OneRequirementPerDocument ==
    \A d \in DOMAIN docs :
       Cardinality({r \in RequirementIds : reqs[r].document_id = d}) <= 1


\* C29: within one call of process_document a requirement's status changes
\* only to compliant and only when the call leaves the document PROCESSED:
\* nothing is persisted before the call ends, the linker's pending change
\* to compliant goes with a pending document status PROCESSED, and a call
\* that ends with the document NEEDS_REVIEW or FAILED (or with an escaped
\* exception) has changed no requirement's status.
C29_CompliantOnlyWithProcessed ==
    \A c \in Callers :
       /\ InFlight(c) =>
             \A r \in RequirementIds : reqs[r].status = before[c].reqs[r].status
       /\ pc[c] = "commit" =>
             \A r \in DOMAIN rpend[c] :
                rpend[c][r].status # reqs[r].status =>
                   rpend[c][r].status = "compliant" /\ pend[c].status = PROCESSED
       /\ (pc[c] \in {"returned", "escaped"} /\ arg[c] \in DOMAIN docs) =>
             \A r \in RequirementIds :
                reqs[r].status # before[c].reqs[r].status =>
                   /\ pc[c] = "returned" /\ ret[c].success
                   /\ r = ret[c].linked_requirement_id
                   /\ reqs[r].status = "compliant"
                   /\ docs[arg[c]].status = PROCESSED

\* a call whose final commit failed after the linker had moved a
\* requirement to compliant: the document is FAILED and the requirement is
\* as it was
C29_Witness ==
    /\ pc["c1"] = "returned" /\ ~ret["c1"].success
    /\ "linker" \in invoked["c1"] /\ linked_id["c1"] # NoId
    /\ FGeq(extraction_result["c1"].confidence, threshold)
    /\ docs[arg["c1"]].status = FAILED
    /\ before["c1"].reqs[linked_id["c1"]].status \in OpenStatuses
    /\ reqs[linked_id["c1"]].status = before["c1"].reqs[linked_id["c1"]].status


\* C30: when process_document returns for an existing document, the status
\* is FAILED exactly when processing_error is not null: a call that ends
\* PROCESSED or NEEDS_REVIEW clears an earlier processing_error, every path
\* to FAILED records a message, and an extraction result that carries
\* errors carries no data.
C30_FailedIffProcessingError ==
    \A c \in Callers :
       /\ (pc[c] = "returned" /\ arg[c] \in DOMAIN docs) =>
             /\ docs[arg[c]].status \in {FAILED, PROCESSED, NEEDS_REVIEW}
             /\ docs[arg[c]].status = FAILED <=> ~IsNone(docs[arg[c]].processing_error)
             /\ ~ret[c].success =>
                   docs[arg[c]].processing_error = Text(ret[c].errors[1])
       /\ (pc[c] \in {"update", "link", "commit"} /\ extraction_result[c].errors # <<>>) =>
             ~DictTruthy(extraction_result[c].data)

\* a second call that ends PROCESSED or NEEDS_REVIEW on a document whose
\* earlier call had left it FAILED with a message
C30_Witness ==
    /\ pc["c1"] = "returned" /\ ret["c1"].success
    /\ before["c1"].docs[arg["c1"]].status = FAILED
    /\ ~IsNone(before["c1"].docs[arg["c1"]].processing_error)
    /\ docs[arg["c1"]].status \in {PROCESSED, NEEDS_REVIEW}
    /\ IsNone(docs[arg["c1"]].processing_error)

=============================================================================
